---- MODULE Spec2Model ----
(***************************************************************************)
(* Analysis controller of the browser chess analyser (gustavojavier7/      *)
(* ajedrez).  Two families of page scripts share one controller design:    *)
(*   "fractal"  : src/script.js 7-1150 (and its copies script.js 1153-2815,*)
(*                src/unnamed/part_001), single-PV analysis;               *)
(*   "adaptive" : src/script.js 2817-4268, MultiPV analysis with a         *)
(*                deadline timer and a cpu game mode.                      *)
(* The page is single threaded: every handler (user call, timer callback,  *)
(* promise continuation, worker message) runs to completion, so a handler  *)
(* is one action.  Handlers are written as operators from a page-state     *)
(* record to a page-state record, composed as the code composes its calls. *)
(*                                                                         *)
(* Collaborators that are not code of the repository are modelled by what  *)
(* the code relies on:                                                     *)
(*   chess.js   : a position is a ply number; the side to move is its      *)
(*                parity; the position at ply MaxPly is game over;         *)
(*   Stockfish  : a worker is idle or searching a root position; it emits  *)
(*                info records while searching and one bestmove record     *)
(*                when a search ends (by itself or on "stop");             *)
(*   the clock  : a timer callback takes its reading of Date.now() -       *)
(*                analysisStartTimestamp as an input.                      *)
(*                                                                         *)
(* The complexity estimator of the fractal page (class FractalChessEngine,  *)
(* in two texts: script.js and src/unnamed/part_001) is a separate part:   *)
(* its methods are operators on the engine object, its numbers are kept in *)
(* thousandths, and SpecFractal runs the calls the page and the exposed    *)
(* engine object allow.  The controller specifications keep the 'go depth' *)
(* argument abstract (FractalDepth) and leave the engine object alone.     *)
(*                                                                         *)
(* Further specifications vary one input each: SpecTrend the scores and    *)
(* speeds the engine reports, SpecParse the keywords and values of an info *)
(* record, SpecDraw the text of the position field, and SpecSelect calls   *)
(* the two methods of AdaptiveChessEngine on their own.                    *)
(* SpecRank lets the engine report lines of every rank, SpecAvail runs the *)
(* start-up polls for the chess.js library, and SpecDemo is the demo board *)
(* of src/app.js, a page of its own with its own variables.                *)
(***************************************************************************)
EXTENDS Integers, Sequences, FiniteSets, TLC

(* ------------------------------ bounds --------------------------------- *)
\* plies after which the modelled game is over
MaxPly == 2
\* workers alive, or being fetched, at one time
MaxWorkers == 2
\* fetches of the engine script unsettled at one time; ConnectAgain, the
\* connection control used during a fetch, goes up to MaxWorkers
MaxFetches == 1
\* worker messages queued for the page
MaxChannel == 1
\* pending setTimeout callbacks
MaxPending == 1
\* entries of evaluationHistory kept; computeAdaptiveParameters reads the last
\* two, so it leaves BaseDepth only from HistKeep = 2 on
HistKeep == 1
\* lines of a MultiPV search the engine reports
MaxLines == 1
\* capacity of the complexity cache of FractalChessEngine (1000 in the code)
maxCacheSize == 2
\* entries of evaluationHistory kept in SpecTrend: the two that
\* computeAdaptiveParameters reads
TrendKeep == 2
\* slots of multiPVLines in SpecSelect (the page asks for at most 7 lines)
MaxSlots == 3

(* ------------------------- program constants --------------------------- *)
BaseDepth == 12
DepthUp == 2
DepthDown == 1
DepthCap == 40
DepthFloor == 6
NodesPerDepth == 1000000
MinTimeMs == 1000
InitPredictedDepth == 1
InitPredictedTimeMs == 2000
EvaluationThreshold == 50
MultiPVCount == 5
AdaptiveAnalysisDepth == 15
MateScore == 100000

(* ------------------------- input domains ------------------------------- *)
Variants == {"fractal", "adaptive"}
GameModes == {"edit", "cpu"}
Positions == 0..MaxPly
Moves == {1, 2, 3}
\* centipawn values the engine reports
ScoreVals == {200}
\* nodes token of an info record
NodesVals == {1000000}
\* time token of an info record, in milliseconds
TimeVals == {1000}
\* depth token of an info record
DepthVals == {5}
\* readings of Date.now() - analysisStartTimestamp a timer callback may take
TimePoints == {0, 14000}
\* score types of an info record
ScoreTypes == {"cp"}
\* SpecTrend: centipawn values and nodes tokens (the time token is 1000, so the
\* nodes token is the nodes per second); 12000 nodes per second is where the
\* budget of depth 12 meets its floor of 1000 ms
TrendScores == {200}
TrendNodes == {-5, 12000, 12001}
\* the argument of a 'go depth N' whose N FractalChessEngine chooses
FractalDepth == -1

Max(a, b) == IF a >= b THEN a ELSE b
Min(a, b) == IF a <= b THEN a ELSE b
\* Math.round of the quotient n / d, d > 0 (halves go up)
RoundDiv(n, d) == (2 * n + d) \div (2 * d)

\* parseInt of a token that is missing or is not a number; a number compares
\* false with it, and arithmetic on it gives it again
NaN == -2000000000
Less(a, b) == a # NaN /\ b # NaN /\ a < b
Neg(a) == IF a = NaN THEN NaN ELSE -a
Minus(a, b) == IF a = NaN \/ b = NaN THEN NaN ELSE a - b
\* the value undefined of a field that holds numbers
Undefined == -2000000001
\* SpecSelect: evaluations handed to determineAnalysisMode (both sides of both
\* thresholds, mate values, a malformed score), and the evaluation and first
\* move (0: no move) of a candidate line
EvalInputs == {-100000, -51, -50, 0, 50, 51, 100000, NaN}
CandidateEvals == {-60, 10, 50, 60, 200, Undefined}
CandidateMoves == {0, 1}
\* the keywords of an info record the page looks for
Tokens == {"nodes", "time", "depth", "score", "pv", "multipv"}
\* SpecParse: the keywords an info record holds, and those among them that no
\* well-formed value follows
InfoShapes ==
    {[has |-> Tokens \ h, partial |-> {}] :
        h \in {{}, {"depth"}, {"score"}, {"pv"}, {"nodes", "time"}}}
    \cup {[has |-> Tokens, partial |-> {k}] : k \in {"depth", "score", "nodes", "pv"}}
\* SpecParse: score types of an info record
ParseTypes == {"cp", "mate"}

(* ------------------------------ chess.js ------------------------------- *)
game_over(p) == p >= MaxPly
turn(p) == IF p % 2 = 0 THEN "w" ELSE "b"
LegalMoves(p) == IF game_over(p) THEN {} ELSE IF p % 2 = 0 THEN {1, 2} ELSE {2, 3}
\* a move string as the page holds it: SAN, raw UCI (a failed conversion) or ''
NoMove == [form |-> "empty", m |-> 0]
San(m) == [form |-> "san", m |-> m]
Uci(m) == [form |-> "uci", m |-> m]
\* chess.move(str): accepted only for the SAN of a legal move
Accepts(p, str) == str.form = "san" /\ str.m \in LegalMoves(p)

\* uciToSan: SAN of a move legal in the current position, else the token itself
uciToSan(p, m) == IF m \in LegalMoves(p) THEN San(m) ELSE Uci(m)
\* convertPVToSAN of a one-move line
convertPVToSAN(p, m) ==
    IF m = 0 THEN NoMove ELSE IF m \in LegalMoves(p) THEN San(m) ELSE Uci(m)

(* --------------------------- page state -------------------------------- *)
\* let lastStats = {...}: script.js 2847-2855 (memoryUsage, a browser reading, is
\* left out)
NoEval == [type |-> "null", value |-> 0]
EmptyStats == [nps |-> 0, pv |-> NoMove, evaluation |-> NoEval, depth |-> 0,
               bestMove |-> 0, bestMoveSan |-> NoMove]
\* window.currentAnalysisConfig unset
NoConfig == [mode |-> "null", lo |-> 0, hi |-> 0, depth |-> 0, multiPV |-> 0]
\* a hole of the multiPVLines array
NoLine == [def |-> FALSE, move |-> 0, evaluation |-> 0, depth |-> 0, san |-> NoMove]
NoTimeouts == [startEngineTurnIfNeeded |-> 0, connectStart |-> 0,
               delayedMakeMove |-> 0, startAnalysis |-> 0]
\* playerColor === 'white' ? 'w' : 'b' (playerColor is never reassigned)
PlayerSide == "w"

\* one command, or one resource operation, the page performs on worker w
Cmd(op, w, arg) == [op |-> op, w |-> w, arg |-> arg]
Post(s, op, arg) == [s EXCEPT !.posted = Append(@, Cmd(op, s.stockfish, arg))]
AddTimeout(s, k) == [s EXCEPT !.timeouts[k] = @ + 1]
Pending(t) == t.startEngineTurnIfNeeded + t.connectStart + t.delayedMakeMove
              + t.startAnalysis

(* ---------------------- AdaptiveChessEngine ---------------------------- *)
\* determineAnalysisMode with the thresholds included in the outer modes
determineAnalysisModeInclusive(currentEval) ==
    IF currentEval # NaN /\ currentEval >= EvaluationThreshold
    THEN [mode |-> "seek_balance", lo |-> -EvaluationThreshold, hi |-> EvaluationThreshold,
          depth |-> AdaptiveAnalysisDepth + 3, multiPV |-> MultiPVCount]
    ELSE IF currentEval # NaN /\ currentEval <= -EvaluationThreshold
    THEN [mode |-> "seek_improvement", lo |-> -EvaluationThreshold,
          hi |-> EvaluationThreshold, depth |-> AdaptiveAnalysisDepth + 5,
          multiPV |-> MultiPVCount + 2]
    ELSE [mode |-> "maintain_balance", lo |-> -EvaluationThreshold,
          hi |-> EvaluationThreshold, depth |-> AdaptiveAnalysisDepth, multiPV |-> 3]

determineAnalysisMode(currentEval) ==
    IF Less(EvaluationThreshold, currentEval)
    THEN [mode |-> "seek_balance", lo |-> -EvaluationThreshold, hi |-> EvaluationThreshold,
          depth |-> AdaptiveAnalysisDepth + 3, multiPV |-> MultiPVCount]
    ELSE IF Less(currentEval, -EvaluationThreshold)
    THEN [mode |-> "seek_improvement", lo |-> -EvaluationThreshold,
          hi |-> EvaluationThreshold, depth |-> AdaptiveAnalysisDepth + 5,
          multiPV |-> MultiPVCount + 2]
    ELSE [mode |-> "maintain_balance", lo |-> -EvaluationThreshold,
          hi |-> EvaluationThreshold, depth |-> AdaptiveAnalysisDepth, multiPV |-> 3]

targetDistance(line, cfg) ==
    IF Less(line.evaluation, cfg.lo) THEN cfg.lo - line.evaluation
    ELSE IF Less(cfg.hi, line.evaluation) THEN line.evaluation - cfg.hi
    ELSE 0

\* pvLines.filter(...): a hole of the array, a line whose moves are empty (move 0)
\* and a line whose evaluation is undefined are dropped
validLine(line) == line.def /\ line.move # 0 /\ line.evaluation # Undefined
\* .map(...): the line with its targetDistance and inTargetRange
ranked(lines, cfg) ==
    [i \in 1..Len(lines) |->
        [line |-> lines[i], targetDistance |-> targetDistance(lines[i], cfg),
         inTargetRange |-> targetDistance(lines[i], cfg) = 0]]
\* the comparator handed to sort
compareLines(a, b) ==
    IF a.inTargetRange /\ ~b.inTargetRange THEN -1
    ELSE IF ~a.inTargetRange /\ b.inTargetRange THEN 1
    ELSE a.targetDistance - b.targetDistance
\* Array.prototype.sort is stable: x goes behind every element that does not
\* compare greater than it
insertLine(sorted, x) ==
    LET before == {i \in 0..Len(sorted) :
                      \A j \in 1..i : compareLines(sorted[j], x) <= 0}
        k == CHOOSE i \in before : \A j \in before : j <= i
    IN  SubSeq(sorted, 1, k) \o <<x>> \o SubSeq(sorted, k + 1, Len(sorted))
RECURSIVE sortLines(_)
sortLines(lines) ==
    IF lines = <<>> THEN <<>>
    ELSE insertLine(sortLines(SubSeq(lines, 1, Len(lines) - 1)), lines[Len(lines)])

\* selectAdaptiveMove taking the lowest slot instead of the least distance
selectAdaptiveMoveFirstValid(pvLines, cfg) ==
    LET validLines == SelectSeq(pvLines, validLine)
    IN  IF validLines = <<>> THEN NoLine ELSE validLines[1]

\* selectAdaptiveMove without its filter
selectAdaptiveMoveUnfiltered(pvLines, cfg) ==
    IF pvLines = <<>> THEN NoLine
    ELSE sortLines(ranked(pvLines, cfg))[1].line

\* the line returned, without the two fields added by map; NoLine is null
selectAdaptiveMove(pvLines, cfg) ==
    LET validLines == SelectSeq(pvLines, validLine)
    IN  IF validLines = <<>> THEN NoLine
        ELSE sortLines(ranked(validLines, cfg))[1].line

(* ------------------------ analysis controller -------------------------- *)
cpuTurn(s) == s.gameMode = "cpu" /\ turn(s.chess) # PlayerSide

\* computeAdaptiveParameters with the comparison of the two entries reversed
computeAdaptiveParametersReversed(s) ==
    LET h == s.evaluationHistory
        d == IF Len(h) >= 2
             THEN IF Less(h[Len(h) - 1].value, h[Len(h)].value)
                  THEN Min(BaseDepth + DepthUp, DepthCap)
                  ELSE Max(BaseDepth - DepthDown, DepthFloor)
             ELSE BaseDepth
        t == IF s.averageNPS > 0
             THEN Max(MinTimeMs, RoundDiv(d * NodesPerDepth, s.averageNPS))
             ELSE d * 1000
    IN  [s EXCEPT !.predictedDepth = d, !.predictedTimeMs = t]

\* computeAdaptiveParameters without the floor of the time budget
computeAdaptiveParametersNoFloor(s) ==
    LET h == s.evaluationHistory
        d == IF Len(h) >= 2
             THEN IF Less(h[Len(h)].value, h[Len(h) - 1].value)
                  THEN Min(BaseDepth + DepthUp, DepthCap)
                  ELSE Max(BaseDepth - DepthDown, DepthFloor)
             ELSE BaseDepth
        t == IF s.averageNPS > 0
             THEN RoundDiv(d * NodesPerDepth, s.averageNPS)
             ELSE d * 1000
    IN  [s EXCEPT !.predictedDepth = d, !.predictedTimeMs = t]

computeAdaptiveParameters(s) ==
    LET h == s.evaluationHistory
        d == IF Len(h) >= 2
             THEN IF Less(h[Len(h)].value, h[Len(h) - 1].value)
                  THEN Min(BaseDepth + DepthUp, DepthCap)
                  ELSE Max(BaseDepth - DepthDown, DepthFloor)
             ELSE BaseDepth
        t == IF s.averageNPS > 0
             THEN Max(MinTimeMs, RoundDiv(d * NodesPerDepth, s.averageNPS))
             ELSE d * 1000
    IN  [s EXCEPT !.predictedDepth = d, !.predictedTimeMs = t]

\* stopAnalysis without its clearInterval(timerInterval)
stopAnalysisKeepsTimer(s) ==
    IF ~s.isAnalyzing THEN s
    ELSE [(IF s.stockfish # 0 THEN Post(s, "stop", 0) ELSE s)
            EXCEPT !.analysisInterval = FALSE, !.isAnalyzing = FALSE]

stopAnalysis(s) ==
    IF ~s.isAnalyzing THEN s
    ELSE [(IF s.stockfish # 0 THEN Post(s, "stop", 0) ELSE s)
            EXCEPT !.analysisInterval = FALSE, !.timerInterval = FALSE,
                   !.isAnalyzing = FALSE]

connectEngine(s) ==
    IF s.isEngineConnected THEN s
    ELSE [s EXCEPT !.fetches = @ + 1]

\* disconnectEngine without its isEngineConnected guard
disconnectEngineUnguarded(s) ==
    LET s1 == IF s.isAnalyzing THEN stopAnalysis(s) ELSE s
        s2 == IF s1.stockfish # 0
              THEN [Post(s1, "terminate", 0) EXCEPT !.stockfish = 0]
              ELSE s1
        s3 == IF s2.blobURL # 0
              THEN [s2 EXCEPT !.posted = Append(@, Cmd("revoke", s2.blobURL, 0)),
                              !.blobURL = 0]
              ELSE s2
    IN  [s3 EXCEPT !.isEngineConnected = FALSE]

\* disconnectEngine without its call of stopAnalysis
disconnectEngineNoStop(s) ==
    IF ~s.isEngineConnected THEN s
    ELSE LET s2 == IF s.stockfish # 0
                   THEN [Post(s, "terminate", 0) EXCEPT !.stockfish = 0]
                   ELSE s
             s3 == IF s2.blobURL # 0
                   THEN [s2 EXCEPT !.posted = Append(@, Cmd("revoke", s2.blobURL, 0)),
                                   !.blobURL = 0]
                   ELSE s2
         IN  [s3 EXCEPT !.isEngineConnected = FALSE]

disconnectEngine(s) ==
    IF ~s.isEngineConnected THEN s
    ELSE LET s1 == IF s.isAnalyzing THEN stopAnalysis(s) ELSE s
             s2 == IF s1.stockfish # 0
                   THEN [Post(s1, "terminate", 0) EXCEPT !.stockfish = 0]
                   ELSE s1
             s3 == IF s2.blobURL # 0
                   THEN [s2 EXCEPT !.posted = Append(@, Cmd("revoke", s2.blobURL, 0)),
                                   !.blobURL = 0]
                   ELSE s2
         IN  [s3 EXCEPT !.isEngineConnected = FALSE]

\* the go command of the fractal scripts: 'go depth N' with N chosen by
\* FractalChessEngine when fractal analysis is active, else 'go infinite'
\* (argument 0); the depth is written FractalDepth
fractalGo(s) == IF s.fractalAnalysisActive THEN FractalDepth ELSE 0

\* startAnalysis without the isAnalyzing test of its guard
startAnalysisUnguarded(s) ==
    IF ~s.isEngineConnected \/ game_over(s.chess) THEN s
    ELSE IF s.variant = "fractal"
    THEN [Post(Post(s, "position", s.chess), "go", fractalGo(s))
            EXCEPT !.isAnalyzing = TRUE, !.analysisInterval = TRUE]
    ELSE IF s.gameMode = "cpu" /\ turn(s.chess) = PlayerSide THEN s
    ELSE LET s1 == computeAdaptiveParameters(s)
         IN  [Post(Post(s1, "position", s1.chess), "go", s1.predictedDepth)
                EXCEPT !.isAnalyzing = TRUE,
                       !.timerInterval = TRUE, !.analysisInterval = TRUE]

\* startAnalysis without the connection and game-over tests of its guard
startAnalysisNotReady(s) ==
    IF s.isAnalyzing THEN s
    ELSE IF s.variant = "fractal"
    THEN [Post(Post(s, "position", s.chess), "go", fractalGo(s))
            EXCEPT !.isAnalyzing = TRUE, !.analysisInterval = TRUE]
    ELSE IF s.gameMode = "cpu" /\ turn(s.chess) = PlayerSide THEN s
    ELSE LET s1 == computeAdaptiveParameters(s)
         IN  [Post(Post(s1, "position", s1.chess), "go", s1.predictedDepth)
                EXCEPT !.isAnalyzing = TRUE,
                       !.timerInterval = TRUE, !.analysisInterval = TRUE]

startAnalysis(s) ==
    IF ~s.isEngineConnected \/ s.isAnalyzing \/ game_over(s.chess) THEN s
    ELSE IF s.variant = "fractal"
    THEN [Post(Post(s, "position", s.chess), "go", fractalGo(s))
            EXCEPT !.isAnalyzing = TRUE, !.analysisInterval = TRUE]
    ELSE IF s.gameMode = "cpu" /\ turn(s.chess) = PlayerSide THEN s
    ELSE LET s1 == computeAdaptiveParameters(s)
         IN  [Post(Post(s1, "position", s1.chess), "go", s1.predictedDepth)
                EXCEPT !.isAnalyzing = TRUE,
                       !.timerInterval = TRUE, !.analysisInterval = TRUE]

startAdaptiveAnalysis(s) ==
    IF ~s.isEngineConnected \/ s.isAnalyzing \/ game_over(s.chess) THEN s
    ELSE IF s.gameMode = "cpu" /\ turn(s.chess) = PlayerSide THEN s
    ELSE LET currentEval == IF s.lastStats.evaluation # NoEval
                            THEN s.lastStats.evaluation.value ELSE 0
             cfg == determineAnalysisMode(currentEval)
             s1 == Post(s, "setoption", cfg.multiPV)
             s2 == [s1 EXCEPT !.multiPVLines = <<>>]
             s3 == Post(Post(s2, "position", s2.chess), "go", cfg.depth)
         IN  [s3 EXCEPT !.isAnalyzing = TRUE, !.timerInterval = TRUE,
                        !.currentAnalysisConfig = cfg]

startEngineTurnIfNeeded(s) ==
    IF ~cpuTurn(s) \/ game_over(s.chess) THEN s
    ELSE IF s.isEngineConnected
         THEN IF s.adaptiveEnabled THEN startAdaptiveAnalysis(s) ELSE startAnalysis(s)
         ELSE connectEngine(s)

makeCpuMove(s) ==
    IF ~s.isEngineConnected THEN connectEngine(s)
    ELSE IF s.adaptiveEnabled THEN startAdaptiveAnalysis(s) ELSE startAnalysis(s)

resetStats(s) == [s EXCEPT !.lastStats = EmptyStats]

\* the text of the position field: the FEN of position pos ("fen"); a text that
\* is empty, longer than 100 characters or fails chess.validate_fen; and the FEN
\* of pos with its first two fields separated by a tab ("tabbed"), which chess.js
\* splits on any white space and parseFEN on the space character only
FenText(form, pos) == [form |-> form, pos |-> pos]
\* the texts that are not the FEN of a position: those chess.js rejects too,
\* and those only parseFEN's own scan of the ranks rejects
RejectedTexts == {FenText(form, 0) : form \in {"empty", "long", "invalid"}}
TabbedTexts == {FenText("tabbed", p) : p \in Positions}
BadTexts == RejectedTexts \cup TabbedTexts

\* parseFEN: what it leaves assigned, and whether it throws
parseFEN(s, fen) ==
    IF fen.form \in {"empty", "long", "invalid"} THEN [page |-> s, threw |-> TRUE]
    ELSE [page |-> [s EXCEPT !.chess = fen.pos], threw |-> fen.form = "tabbed"]

\* drawBoard with fen the trimmed text of the position field
drawBoard(s, fen) ==
    IF fen.form \in {"empty", "long"} THEN s
    ELSE LET parsed == parseFEN(s, fen)
             s1 == parsed.page
             s2 == IF s1.isAnalyzing THEN stopAnalysis(s1) ELSE s1
         IN  IF parsed.threw THEN s1 ELSE resetStats(s2)

makeMove(s, moveStr) ==
    IF ~Accepts(s.chess, moveStr) THEN s
    ELSE LET s1 == [s EXCEPT !.chess = @ + 1]
             s2 == drawBoard(s1, FenText("fen", s1.chess))
             s3 == IF s2.isAnalyzing THEN stopAnalysis(s2) ELSE s2
             s4 == resetStats(s3)
         IN  IF s4.isEngineConnected /\ ~game_over(s4.chess)
             THEN AddTimeout(s4, IF s4.variant = "fractal" THEN "startAnalysis"
                                 ELSE "startEngineTurnIfNeeded")
             ELSE s4

\* forceBestMove without its call of stopAnalysis
forceBestMoveNoStop(s) ==
    IF ~s.isAnalyzing THEN s
    ELSE IF s.lastStats.bestMoveSan # NoMove
         THEN makeMove(s, s.lastStats.bestMoveSan)
         ELSE makeCpuMove(s)

forceBestMove(s) ==
    IF ~s.isAnalyzing THEN s
    ELSE LET s1 == stopAnalysis(s)
         IN  IF s1.lastStats.bestMoveSan # NoMove
             THEN makeMove(s1, s1.lastStats.bestMoveSan)
             ELSE makeCpuMove(s1)

\* elapsed is the callback's reading of Date.now() - analysisStartTimestamp
updateAnalysisTimer(s, elapsed) ==
    IF elapsed >= s.predictedTimeMs THEN forceBestMove(s) ELSE s

\* the beforeunload handler; the fractal scripts have no timerInterval
beforeUnload(s) ==
    LET s1 == IF s.stockfish # 0
              THEN [Post(s, "terminate", 0) EXCEPT !.stockfish = 0]
              ELSE s
        s2 == IF s1.blobURL # 0
              THEN [s1 EXCEPT !.posted = Append(@, Cmd("revoke", s1.blobURL, 0)),
                              !.blobURL = 0]
              ELSE s1
    IN  [s2 EXCEPT !.analysisInterval = FALSE]

toggleEngine(s) ==
    IF s.isEngineConnected THEN disconnectEngine(s) ELSE connectEngine(s)

toggleAnalysis(s) ==
    IF s.isAnalyzing THEN stopAnalysis(s)
    ELSE IF s.variant = "adaptive" /\ s.gameMode = "cpu" THEN startEngineTurnIfNeeded(s)
    ELSE startAnalysis(s)

(* ----------------------- engine message handlers ----------------------- *)
\* evaluationHistory.push
pushHistory(h, e) == Append(h, e)
\* the page state with the entries of evaluationHistory before the last keep
\* forgotten
Forget(s, keep) ==
    LET h == s.evaluationHistory
    IN  [s EXCEPT !.evaluationHistory =
            IF Len(h) > keep THEN SubSeq(h, Len(h) - keep + 1, Len(h)) ELSE h]

\* multiPVLines[i] = v for a 0-based i; assigning past the end leaves holes
setSlot(lines, i, v) ==
    [k \in 1..Max(Len(lines), i + 1) |->
        IF k = i + 1 THEN v ELSE IF k <= Len(lines) THEN lines[k] ELSE NoLine]

\* the value that follows the score type is msg.score; the fractal adjustment
\* of the fractal scripts (a factor between 1 and 1.1) is left out
parseScore(s, msg) ==
    LET adjusted == IF turn(s.chess) = "w" THEN msg.score ELSE Neg(msg.score)
    IN  IF msg.stype \in {"cp", "mate"}
        THEN [s EXCEPT !.lastStats.evaluation = [type |-> msg.stype, value |-> adjusted]]
        ELSE s

\* msg.has holds the keywords found in the record; msg.move = 0 is a pv keyword
\* with no move after it
parseInfoLine(s, msg) ==
    LET s1 == IF {"nodes", "time"} \subseteq msg.has /\ Less(0, msg.time)
              THEN [s EXCEPT !.lastStats.nps =
                       IF msg.nodes = NaN THEN NaN
                       ELSE RoundDiv(msg.nodes * 1000, msg.time)]
              ELSE s
        s2 == IF "depth" \in msg.has THEN [s1 EXCEPT !.lastStats.depth = msg.depth]
              ELSE s1
        s3 == IF "score" \in msg.has THEN parseScore(s2, msg) ELSE s2
    IN  IF "pv" \in msg.has /\ msg.move # 0
        THEN [s3 EXCEPT !.lastStats.pv = convertPVToSAN(s3.chess, msg.move)]
        ELSE s3

\* multiPVLines[pvNumber] = ... adds an element only for an index 0, 1, ...
parseAdaptiveInfoLine(s, msg) ==
    LET pvNumber == Minus(msg.mpv, 1)
        white == turn(s.chess) = "w"
        evaluation ==
            IF msg.stype = "cp" THEN (IF white THEN msg.score ELSE Neg(msg.score))
            ELSE IF msg.stype = "mate"
                 THEN (IF white THEN (IF Less(0, msg.score) THEN MateScore ELSE -MateScore)
                       ELSE (IF Less(0, msg.score) THEN -MateScore ELSE MateScore))
                 ELSE 0
        line == [def |-> TRUE, move |-> msg.move, evaluation |-> evaluation,
                 depth |-> IF "depth" \in msg.has THEN msg.depth ELSE 0,
                 san |-> convertPVToSAN(s.chess, msg.move)]
        s1 == IF pvNumber # NaN /\ pvNumber >= 0
              THEN [s EXCEPT !.multiPVLines = setSlot(@, pvNumber, line)]
              ELSE s
        s2 == IF pvNumber = 0
              THEN [s1 EXCEPT !.lastStats.evaluation =
                                  [type |-> msg.stype, value |-> evaluation],
                              !.lastStats.pv = s1.multiPVLines[1].san]
              ELSE s1
    IN  IF {"multipv", "pv", "score"} \subseteq msg.has THEN parseInfoLine(s2, msg)
        ELSE parseInfoLine(s, msg)

processBestMove(s, bestMove) ==
    LET s1 == [s EXCEPT !.lastStats.bestMove = bestMove,
                        !.lastStats.bestMoveSan = uciToSan(s.chess, bestMove)]
    IN  IF s.variant = "fractal" THEN s1
        ELSE LET s2 == IF s1.lastStats.evaluation # NoEval
                       THEN [s1 EXCEPT !.evaluationHistory =
                                           pushHistory(@, s1.lastStats.evaluation)]
                       ELSE s1
                 s3 == IF Less(0, s2.lastStats.nps)
                       THEN [s2 EXCEPT !.averageNPS =
                                IF @ = 0 THEN s2.lastStats.nps
                                ELSE RoundDiv(@ + s2.lastStats.nps, 2)]
                       ELSE s2
                 s4 == [s3 EXCEPT !.timerInterval = FALSE]
             IN  IF s4.gameMode = "cpu"
                 THEN LET s5 == stopAnalysis(s4)
                      IN  IF s5.lastStats.bestMoveSan # NoMove
                          THEN makeMove(s5, s5.lastStats.bestMoveSan)
                          ELSE makeCpuMove(s5)
                 ELSE s4

processAdaptiveBestMove(s, bestMove) ==
    IF s.currentAnalysisConfig = NoConfig \/ Len(s.multiPVLines) = 0
    THEN processBestMove(s, bestMove)
    ELSE LET adaptiveResult == selectAdaptiveMove(s.multiPVLines, s.currentAnalysisConfig)
             s1 == IF adaptiveResult.def
                   THEN LET s2 == [s EXCEPT
                                     !.lastStats.bestMove = adaptiveResult.move,
                                     !.lastStats.bestMoveSan =
                                         uciToSan(s.chess, adaptiveResult.move)]
                        IN  IF s2.gameMode = "cpu"
                            THEN AddTimeout(stopAnalysis(s2), "delayedMakeMove")
                            ELSE s2
                   ELSE processBestMove(s, bestMove)
         IN  [s1 EXCEPT !.currentAnalysisConfig = NoConfig]

handleEngineMessage(s, msg) ==
    IF s.variant = "fractal"
    THEN IF msg.kind = "bestmove" THEN processBestMove(s, msg.move)
         ELSE parseInfoLine(s, msg)
    ELSE IF msg.kind = "bestmove" THEN processAdaptiveBestMove(s, msg.move)
         ELSE parseAdaptiveInfoLine(s, msg)

\* .then(code => ...) of connectEngine; id is the identity of the new Worker and
\* of its blob URL
fetchThen(s, id) ==
    LET s1 == [s EXCEPT !.fetches = @ - 1, !.blobURL = id,
                        !.stockfish = id,
                        !.posted = @ \o <<Cmd("createURL", id, 0), Cmd("create", id, 0),
                                          Cmd("uci", id, 0), Cmd("setoption", id, 1),
                                          Cmd("sethash", id, 128), Cmd("isready", id, 0)>>,
                        !.isEngineConnected = TRUE]
    IN  IF s.variant = "fractal"
        THEN IF ~game_over(s1.chess) THEN AddTimeout(s1, "startAnalysis") ELSE s1
        ELSE IF cpuTurn(s1) /\ ~game_over(s1.chess) THEN AddTimeout(s1, "connectStart")
             ELSE s1

\* .catch(err => ...) of connectEngine, for a rejected fetch or a response not ok
fetchCatch(s) == [s EXCEPT !.fetches = @ - 1, !.isEngineConnected = FALSE]

\* the statements of .then(code => ...) at which an exception can leave it:
\* the creation of the blob URL, the creation of the Worker, the first postMessage
ThrowPoints == {"blob", "worker", "post"}

\* .then(code => ...) left by an exception at statement at, followed by
\* .catch(err => ...): what was assigned before the exception stays assigned
fetchThenThrows(s, id, at) ==
    LET s0 == [s EXCEPT !.fetches = @ - 1]
        s1 == IF at = "blob" THEN s0
              ELSE [s0 EXCEPT !.blobURL = id,
                              !.posted = Append(@, Cmd("createURL", id, 0))]
        s2 == IF at \in {"blob", "worker"} THEN s1
              ELSE [s1 EXCEPT !.stockfish = id,
                              !.posted = Append(@, Cmd("create", id, 0))]
    IN  [s2 EXCEPT !.isEngineConnected = FALSE]

\* setTimeout(() => { adaptiveEnabled ? startAdaptiveAnalysis() : startAnalysis() }, 500)
connectStart(s) == IF s.adaptiveEnabled THEN startAdaptiveAnalysis(s) ELSE startAnalysis(s)

\* setTimeout(() => { makeMove(lastStats.bestMoveSan) }, 500)
delayedMakeMove(s) == makeMove(s, s.lastStats.bestMoveSan)

\* the change handler of the enableFractal checkbox
fractalToggle(s, checked) ==
    LET s1 == [s EXCEPT !.fractalAnalysisActive = checked]
    IN  IF s1.isAnalyzing THEN AddTimeout(stopAnalysis(s1), "startAnalysis") ELSE s1

setGameMode(s, mode) == [s EXCEPT !.gameMode = mode]

adaptiveToggle(s, checked) == [s EXCEPT !.adaptiveEnabled = checked]

(* ------------------------ FractalChessEngine --------------------------- *)
\* Numbers of the estimator are kept in thousandths: 1.247 is 1247.
Scale == 1000
\* TLC integers have 32 bits: products saturate at Big (2000.000), which is above
\* every value the code compares a product with
Big == 2000000
DefaultDimension == 1247
MinDimension == 1000
MaxDimension == 2000
MinComplexity == 1000
MaxComplexity == 50000
FallbackComplexity == 10000
ComplexityBaseDepth == 12
MinOptimalDepth == 8
MaxOptimalDepth == 22

\* the two texts of the class: script.js 147-279 (= 1295-1427), and
\* src/unnamed/part_001 116-342
EngineKinds == {"script.js", "part_001"}

\* sample positions, and an argument that is not a string
\*   StartPos    rnbqkbnr/pppppppp/8/8/8/8/PPPPPPPP/RNBQKBNR w KQkq - 0 1
\*   MaxMobility R6R/3Q4/1Q4Q1/4Q3/2Q4Q/Q4Q2/pp1Q4/kBNN1KB1 w - - 0 1
\*   BareKings   4k3/8/8/8/8/8/8/4K3 w - - 0 1
\*   InCheck     4k3/8/8/8/8/8/4q3/4K3 w - - 0 1
Fens == {"StartPos", "MaxMobility", "BareKings", "InCheck"}
BadFen == "undefined"
\* values the dimension slider can deliver (min 1.0, max 2.0, step 0.001)
SliderVals == {1000, 1247, 2000}
\* arguments of a direct call of updateDimension
DimInputs == {500, 1000, 1247, 2000, 2500}
\* arguments of a direct call of calculateOptimalDepth
ComplexityVals == {0, 1000, 10000, 20000, 50000, 100000}

\* countPieces: letters of the first field
countPieces(fen) ==
    CASE fen = "StartPos" -> 32 [] fen = "MaxMobility" -> 19
      [] fen = "BareKings" -> 2 [] fen = "InCheck" -> 3
\* estimateMobility: new Chess(fen).moves().length
estimateMobility(fen) ==
    CASE fen = "StartPos" -> 20 [] fen = "MaxMobility" -> 218
      [] fen = "BareKings" -> 5 [] fen = "InCheck" -> 1
\* evaluateCenterControl: +10 / -10 for a white / black piece on d4, d5, e4, e5
evaluateCenterControl(fen) ==
    CASE fen = "MaxMobility" -> 10 [] OTHER -> 0
in_check(fen) == fen = "InCheck"
\* evaluateKingSafety of script.js: 10, less 50 when the side to move is in check
evaluateKingSafety(fen) == IF in_check(fen) THEN 10 - 50 ELSE 10
\* evaluateKingSafety of part_001, in thousandths, for the king of the side to move:
\*   StartPos    e1, pawn shield 3                       ->  15
\*   MaxMobility f1 (+10), 19 pieces (+4.0625), material +10200/900/2 (+5.667)
\*   BareKings   e1, 2 pieces (+9.375)
\*   InCheck     e1, 3 pieces (+9.0625), material -0.5, one attacker (-5),
\*               in check (-20)
evaluateKingSafetyFull(fen) ==
    CASE fen = "StartPos" -> 15000 [] fen = "MaxMobility" -> 19729
      [] fen = "BareKings" -> 9375 [] fen = "InCheck" -> -16437

\* the product of two numbers in thousandths
Mul(a, b) ==
    IF b > 0 /\ a > (Big * Scale) \div b THEN Big ELSE (a * b) \div Scale
RECURSIVE SqrtBetween(_, _, _)
SqrtBetween(n, lo, hi) ==
    IF lo >= hi THEN lo
    ELSE LET mid == (lo + hi + 1) \div 2
         IN  IF mid * mid <= n THEN SqrtBetween(n, mid, hi)
             ELSE SqrtBetween(n, lo, mid - 1)
\* Math.sqrt of a number in thousandths, rounded down
Sqrt(x) == SqrtBetween(Min(x, Big) * Scale, 0, 46340)
\* Math.pow(x, 1/D), rounded down: exact for D = 1, the square root for D = 2;
\* for the default D = 1.247 the exponent 0.8019 is taken as
\* 205/256 = 1/2 + 1/4 + 1/32 + 1/64 + 1/256 (0.8008), a product of iterated
\* square roots
Pow(x, D) ==
    CASE D = 1000 -> x
      [] D = 2000 -> Sqrt(x)
      [] D = 1247 ->
           LET r2 == Sqrt(x)
               r4 == Sqrt(r2)
               r32 == Sqrt(Sqrt(Sqrt(r4)))
               r64 == Sqrt(r32)
               r256 == Sqrt(Sqrt(r64))
           IN  Mul(Mul(Mul(Mul(r2, r4), r32), r64), r256)

\* new FractalChessEngine(dimension); the cache is the Map in insertion order
FractalChessEngine(kind, dimension) ==
    [kind |-> kind, D |-> dimension, cache |-> <<>>]

has(cache, fen) == \E i \in 1..Len(cache) : cache[i].fen = fen
get(cache, fen) == cache[CHOOSE i \in 1..Len(cache) : cache[i].fen = fen].value

\* the value computed in the try block of calculateFractalComplexity
rawComplexity(e, fen) ==
    IF e.kind = "script.js"
    THEN LET complexity ==
                 Mul(Mul(Mul(Pow(countPieces(fen) * Scale, e.D),
                             Pow(Max(estimateMobility(fen), 1) * Scale, e.D)),
                         Pow(Max((IF evaluateCenterControl(fen) < 0
                                  THEN -evaluateCenterControl(fen)
                                  ELSE evaluateCenterControl(fen)) + 1, 1) * Scale, e.D)),
                     Pow(Max(evaluateKingSafety(fen) + 1, 1) * Scale, e.D))
         IN  Max(MinComplexity, Min(MaxComplexity, complexity))
    ELSE LET centerControl == IF evaluateCenterControl(fen) < 0
                              THEN -evaluateCenterControl(fen)
                              ELSE evaluateCenterControl(fen)
             piecesNorm == Pow(Max((countPieces(fen) * Scale) \div 32, 100), e.D)
             mobilityNorm == Pow(Max((estimateMobility(fen) * Scale) \div 60, 100), e.D)
             centerControlNorm == Pow(Max((centerControl * Scale) \div 40, 100), e.D)
             kingSafetyNorm ==
                 Pow(Max((evaluateKingSafetyFull(fen) + 50 * Scale) \div 100, 100), e.D)
             sumNorm == piecesNorm + mobilityNorm + centerControlNorm + kingSafetyNorm
             complexity == Scale + (49 * sumNorm) \div 4
         IN  Max(MinComplexity, complexity)

\* calculateFractalComplexity without the deletion of the oldest entry
calculateFractalComplexityNoEvict(e, fen) ==
    IF has(e.cache, fen) THEN [engine |-> e, result |-> get(e.cache, fen)]
    ELSE IF fen = BadFen THEN [engine |-> e, result |-> FallbackComplexity]
    ELSE LET result == rawComplexity(e, fen)
         IN  [engine |-> [e EXCEPT !.cache = Append(@, [fen |-> fen, value |-> result])],
              result |-> result]

\* calculateFractalComplexity storing the fallback value as well
calculateFractalComplexityCachesFallback(e, fen) ==
    IF has(e.cache, fen) THEN [engine |-> e, result |-> get(e.cache, fen)]
    ELSE LET result == IF fen = BadFen THEN FallbackComplexity ELSE rawComplexity(e, fen)
             kept == IF Len(e.cache) >= maxCacheSize THEN Tail(e.cache) ELSE e.cache
         IN  [engine |-> [e EXCEPT !.cache = Append(kept, [fen |-> fen, value |-> result])],
              result |-> result]

\* returns the engine after the call and the value returned; countPieces throws
\* for an argument that is not a string
calculateFractalComplexity(e, fen) ==
    IF has(e.cache, fen) THEN [engine |-> e, result |-> get(e.cache, fen)]
    ELSE IF fen = BadFen THEN [engine |-> e, result |-> FallbackComplexity]
    ELSE LET result == rawComplexity(e, fen)
             kept == IF Len(e.cache) >= maxCacheSize THEN Tail(e.cache) ELSE e.cache
         IN  [engine |-> [e EXCEPT !.cache = Append(kept, [fen |-> fen, value |-> result])],
              result |-> result]

calculateOptimalDepth(e, complexity) ==
    LET complexityFactor == Pow(complexity \div 10, e.D)
        optimalDepth == (ComplexityBaseDepth * Scale + 6 * complexityFactor
                           + Scale \div 2) \div Scale
    IN  IF e.kind = "script.js"
        THEN Min(Max(optimalDepth, MinOptimalDepth), MaxOptimalDepth)
        ELSE Max(optimalDepth, MinOptimalDepth)

\* updateDimension without cache.clear()
updateDimensionKeepsCache(e, newDimension) ==
    [e EXCEPT !.D = Max(MinDimension, Min(MaxDimension, newDimension))]

\* updateDimension without the clamp
updateDimensionUnclamped(e, newDimension) ==
    [e EXCEPT !.D = newDimension, !.cache = <<>>]

updateDimension(e, newDimension) ==
    [e EXCEPT !.D = Max(MinDimension, Min(MaxDimension, newDimension)),
              !.cache = <<>>]

\* the N of the 'go depth N' of startAnalysis for the position fen
fractalSearchDepth(e, fen) ==
    LET c == calculateFractalComplexity(e, fen)
    IN  calculateOptimalDepth(c.engine, c.result)

\* updateFractalDisplay: computes the complexity of the position on the board when
\* fractal analysis is active
updateFractalDisplay(e, active, fen) ==
    IF ~active THEN e ELSE calculateFractalComplexity(e, fen).engine

(* ------------------------------- state --------------------------------- *)
VARIABLES
    variant,                \* which family of scripts the page runs
    chess,                  \* the chess.js position
    stockfish, blobURL,     \* worker and blob URL references (0 is null)
    isEngineConnected, isAnalyzing,
    analysisInterval, timerInterval,    \* interval handles (FALSE is null)
    adaptiveEnabled, fractalAnalysisActive, gameMode,
    lastStats, multiPVLines, currentAnalysisConfig,
    evaluationHistory, predictedDepth, predictedTimeMs, averageNPS,
    timeouts,               \* pending setTimeout callbacks, by callback
    fetches,                \* fetch(STOCKFISH_URL) promises not yet settled
    workers, blobs,         \* every worker and blob URL: its state
    channel,                \* worker messages queued for the page
    goPending,              \* a 'go' was posted and since then neither a 'stop' was
                            \* posted nor a bestmove record processed
    goOverlap,              \* a 'go' was posted while goPending
    unattended,             \* from now on: no user operation, no bestmove record
    restarts,               \* parity of the searches started since then
    fractalEngine,          \* the FractalChessEngine object: its text, D and cache
    fractalDimension,       \* the page's own copy of the dimension
    lastCall,               \* the last call of a method of fractalEngine: its
                            \* argument and the value it returned
    availability,           \* the promise of checkChessAvailability and its polls
    demo                    \* the variables of app.js, the demo board

pageVars == <<variant, chess, stockfish, blobURL, isEngineConnected,
              isAnalyzing, analysisInterval, timerInterval, adaptiveEnabled,
              fractalAnalysisActive, gameMode, lastStats, multiPVLines,
              currentAnalysisConfig, evaluationHistory, predictedDepth,
              predictedTimeMs, averageNPS, timeouts, fetches>>
engineVars == <<fractalEngine, fractalDimension, lastCall>>
\* the state of the page's start-up and of the demo board, which the controller
\* leaves alone
sideVars == <<availability, demo>>
vars == <<pageVars, workers, blobs, channel, goPending, goOverlap, unattended,
          restarts, engineVars, sideVars>>

\* the page state as the handlers see it
Page ==
    [variant |-> variant, chess |-> chess,
     stockfish |-> stockfish, blobURL |-> blobURL,
     isEngineConnected |-> isEngineConnected, isAnalyzing |-> isAnalyzing,
     analysisInterval |-> analysisInterval, timerInterval |-> timerInterval,
     adaptiveEnabled |-> adaptiveEnabled,
     fractalAnalysisActive |-> fractalAnalysisActive, gameMode |-> gameMode,
     lastStats |-> lastStats, multiPVLines |-> multiPVLines,
     currentAnalysisConfig |-> currentAnalysisConfig,
     evaluationHistory |-> evaluationHistory, predictedDepth |-> predictedDepth,
     predictedTimeMs |-> predictedTimeMs, averageNPS |-> averageNPS,
     timeouts |-> timeouts, fetches |-> fetches,
     posted |-> <<>>]

\* the page state a handler starts from; posted collects, in order, the commands
\* and resource operations the handler performs on the workers
Entry == Page

(* ------------------------- the engine workers -------------------------- *)
WorkerIds == 1..MaxWorkers
NoWorker == [st |-> "none", root |-> 0, inf |-> FALSE]

\* the workers that run
Alive(ws) == {w \in WorkerIds : ws[w].st \in {"idle", "searching"}}
\* the identity of the next Worker: that of no worker that runs
FreshId == CHOOSE w \in WorkerIds \ Alive(workers) :
              \A v \in WorkerIds \ Alive(workers) : w <= v

\* the engine's k-th line for a root position: its k-th legal move
PVMove(root, k) ==
    LET ms == LegalMoves(root)
    IN  IF ms = {} THEN 0
        ELSE IF k = 1 THEN CHOOSE m \in ms : \A n \in ms : m <= n
        ELSE CHOOSE m \in ms : \A n \in ms : m >= n

\* a complete info record of the search of root: its k-th line, the score sc of
\* type ty, n nodes searched in t milliseconds, depth d
InfoMsg(w, root, k, sc, ty, n, t, d) ==
    [w |-> w, kind |-> "info", root |-> root, has |-> Tokens, mpv |-> k,
     stype |-> ty, score |-> sc, move |-> PVMove(root, k), nodes |-> n, time |-> t,
     depth |-> d, onStop |-> FALSE]
\* the record InfoMsg with the keywords of shape.has only, and NaN (for pv: no
\* move) where no well-formed value follows the keyword
PartialInfo(msg, shape) ==
    LET q == shape.partial \cap shape.has
    IN  [msg EXCEPT !.has = shape.has,
                    !.depth = IF "depth" \in q THEN NaN ELSE @,
                    !.score = IF "score" \in q THEN NaN ELSE @,
                    !.nodes = IF "nodes" \in q THEN NaN ELSE @,
                    !.move = IF "pv" \in q THEN 0 ELSE @]
\* onStop tells the answer to a 'stop' from the end of a search that ran out
BestMoveMsg(w, root, onStop) ==
    [w |-> w, kind |-> "bestmove", root |-> root, has |-> {}, mpv |-> 0,
     stype |-> "cp", score |-> 0, move |-> PVMove(root, 1), nodes |-> 0, time |-> 0,
     depth |-> 0, onStop |-> onStop]

\* the queued messages that worker w did not send
RECURSIVE FromOthers(_, _)
FromOthers(q, w) ==
    IF q = <<>> THEN <<>>
    ELSE IF Head(q).w = w THEN FromOthers(Tail(q), w)
         ELSE <<Head(q)>> \o FromOthers(Tail(q), w)

\* what one command or resource operation of the page does to the workers, the
\* blob URLs and the message queue.  A worker handles a command when it is
\* posted; the delay of the real channel is the delay of the queued answers.
\* A silent engine answers no 'stop'.
EnvStep(env, c, silent) ==
    LET w == c.w
    IN  CASE c.op = "create" ->
               [env EXCEPT !.workers[w] = [st |-> "idle", root |-> 0, inf |-> FALSE]]
          [] c.op = "createURL" -> [env EXCEPT !.blobs[w] = "live"]
          [] c.op = "revoke" -> [env EXCEPT !.blobs[w] = "revoked"]
          [] c.op = "terminate" ->
               [env EXCEPT !.workers[w] = [st |-> "terminated", root |-> 0, inf |-> FALSE],
                           !.channel = FromOthers(@, w)]
          [] c.op = "position" -> [env EXCEPT !.workers[w].root = c.arg]
          [] c.op = "go" ->
               [env EXCEPT !.workers[w].st = "searching", !.workers[w].inf = (c.arg = 0)]
          [] c.op = "stop" ->
               IF env.workers[w].st = "searching"
               THEN [env EXCEPT !.workers[w] = [st |-> "idle", root |-> 0, inf |-> FALSE],
                                !.channel =
                                    IF silent THEN @
                                    ELSE Append(@, BestMoveMsg(w, env.workers[w].root,
                                                               TRUE))]
               ELSE env
          [] OTHER -> env

RECURSIVE EnvRun(_, _, _)
EnvRun(env, cmds, silent) ==
    IF cmds = <<>> THEN env
    ELSE EnvRun(EnvStep(env, Head(cmds), silent), Tail(cmds), silent)

\* the handler whose commands are r.posted posts a command op
Posts(r, op) == \E i \in 1..Len(r.posted) : r.posted[i].op = op

\* the 'go' and 'stop' commands of a handler, in the order they are posted
RECURSIVE GoTrack(_, _)
GoTrack(g, cmds) ==
    IF cmds = <<>> THEN g
    ELSE LET c == Head(cmds)
             g1 == IF c.op = "go"
                   THEN [pending |-> TRUE, overlap |-> g.overlap \/ g.pending]
                   ELSE IF c.op = "stop" THEN [g EXCEPT !.pending = FALSE]
                   ELSE g
         IN  GoTrack(g1, Tail(cmds))

(* ------------------------------ actions -------------------------------- *)
\* the page takes the state s a handler returned, and the workers take what the
\* handler posted; ch is the message queue the handler ran against
CommitWithin(ret, ch, maxFetches) ==
    \E s \in {ret} :
    LET env == EnvRun([workers |-> workers, blobs |-> blobs, channel |-> ch],
                      s.posted, unattended)
        processed == ch # channel /\ Head(channel).kind = "bestmove"
        g == GoTrack([pending |-> goPending /\ ~processed, overlap |-> goOverlap],
                     s.posted)
    IN  /\ Pending(s.timeouts) <= MaxPending
        /\ s.fetches > fetches => s.fetches <= maxFetches
        /\ s.fetches + Cardinality(Alive(env.workers)) <= MaxWorkers
        /\ Len(env.channel) <= MaxChannel
        /\ variant' = s.variant /\ chess' = s.chess
        /\ stockfish' = s.stockfish /\ blobURL' = s.blobURL
        /\ isEngineConnected' = s.isEngineConnected /\ isAnalyzing' = s.isAnalyzing
        /\ analysisInterval' = s.analysisInterval /\ timerInterval' = s.timerInterval
        /\ adaptiveEnabled' = s.adaptiveEnabled
        /\ fractalAnalysisActive' = s.fractalAnalysisActive /\ gameMode' = s.gameMode
        /\ lastStats' = s.lastStats /\ multiPVLines' = s.multiPVLines
        /\ currentAnalysisConfig' = s.currentAnalysisConfig
        /\ evaluationHistory' = s.evaluationHistory
        /\ predictedDepth' = s.predictedDepth /\ predictedTimeMs' = s.predictedTimeMs
        /\ averageNPS' = s.averageNPS
        /\ timeouts' = s.timeouts /\ fetches' = s.fetches
        /\ workers' = env.workers /\ blobs' = env.blobs /\ channel' = env.channel
        /\ goPending' = g.pending /\ goOverlap' = g.overlap
        /\ restarts' = IF unattended /\ Posts(s, "go") THEN 1 - restarts ELSE restarts
        /\ UNCHANGED <<unattended, fractalEngine, fractalDimension, lastCall, sideVars>>

Commit(ret, ch) == CommitWithin(ret, ch, MaxFetches)

\* no method of fractalEngine called yet
NoCall == [op |-> "none", fen |-> "", arg |-> 0, result |-> 0]

\* ---- checkChessAvailability: the promise (state, and how many times resolve
\* or reject was called), the polls made by check, the pending setTimeout(check)
\* callbacks, and whether typeof Chess !== 'undefined'
maxAttempts == 100
NotCalled ==
    [called |-> FALSE, defined |-> FALSE, attempts |-> 0, timer |-> 0,
     state |-> "pending", settled |-> 0]
\* resolve() or reject(): only the first call settles the promise
settle(a, how) ==
    [a EXCEPT !.state = IF @ = "pending" THEN how ELSE @, !.settled = @ + 1]

\* check with the rejection one poll late
checkLate(a) ==
    LET a1 == [a EXCEPT !.attempts = @ + 1]
    IN  IF a1.defined THEN settle(a1, "resolved")
        ELSE IF a1.attempts > maxAttempts THEN settle(a1, "rejected")
        ELSE [a1 EXCEPT !.timer = @ + 1]

check(a) ==
    LET a1 == [a EXCEPT !.attempts = @ + 1]
    IN  IF a1.defined THEN settle(a1, "resolved")
        ELSE IF a1.attempts >= maxAttempts THEN settle(a1, "rejected")
        ELSE [a1 EXCEPT !.timer = @ + 1]

\* the executor of the promise
checkChessAvailability(a) ==
    LET a1 == [a EXCEPT !.called = TRUE]
    IN  IF a1.defined THEN settle(a1, "resolved")
        ELSE [a1 EXCEPT !.timer = @ + 1]

(* ------------------------ the demo board of app.js ----------------------- *)
\* a square is its file as charCodeAt(0) - 97 and its digit: 'e2' is <<4, 2>>
sqE2 == <<4, 2>>
sqE4 == <<4, 4>>
sqD7 == <<3, 7>>
sqD5 == <<3, 5>>
\* selectedSquare = null
NoSquare == <<>>
WhitePieces == {"K", "Q", "R", "B", "N", "P"}
\* piece === piece.toUpperCase()
isWhitePiece(piece) == piece \in WhitePieces

\* a row of demoBoard, indexed by file from 0; "null" is null
Row(cells) == [file \in 0..(Len(cells) - 1) |-> cells[file + 1]]
EmptyRow == Row(<<"null", "null", "null", "null", "null", "null", "null", "null">>)
StartBoard ==
    [rank \in 0..7 |->
        CASE rank = 0 -> Row(<<"r", "n", "b", "q", "k", "b", "n", "r">>)
          [] rank = 1 -> Row(<<"p", "p", "p", "p", "p", "p", "p", "p">>)
          [] rank = 6 -> Row(<<"P", "P", "P", "P", "P", "P", "P", "P">>)
          [] rank = 7 -> Row(<<"R", "N", "B", "Q", "K", "B", "N", "R">>)
          [] OTHER -> EmptyRow]

\* the piece placement of the FEN of each preset, split on '/' and into characters
PRESET_POSITIONS ==
    [opening |->
        << <<"r","n","b","q","k","b","1","r">>, <<"p","p","p","2","p","p","p">>,
           <<"4","p","n","2">>, <<"3","p","4">>, <<"2","P","P","4">>,
           <<"2","N","2","N","2">>, <<"P","P","2","P","P","P","P">>,
           <<"R","1","B","Q","K","B","1","R">> >>,
     middlegame |->
        << <<"r","1","b","q","1","r","k","1">>, <<"p","p","p","2","p","p","p">>,
           <<"2","n","1","b","n","2">>, <<"2","b","p","p","3">>, <<"3","P","P","3">>,
           <<"2","N","1","B","N","2">>, <<"P","P","P","1","B","P","P","P">>,
           <<"R","2","Q","1","R","K","1">> >>,
     endgame |->
        << <<"8">>, <<"2","p","5">>, <<"3","p","4">>, <<"K","P","5","r">>,
           <<"1","R","3","p","1","k">>, <<"8">>, <<"4","P","1","P","1">>, <<"8">> >>]
PresetTypes == DOMAIN PRESET_POSITIONS

\* parseInt(char) of a character for which isNaN(char) is false
DigitValue ==
    [c \in {"0", "1", "2", "3", "4", "5", "6", "7", "8", "9"} |->
        CASE c = "0" -> 0 [] c = "1" -> 1 [] c = "2" -> 2 [] c = "3" -> 3
          [] c = "4" -> 4 [] c = "5" -> 5 [] c = "6" -> 6 [] c = "7" -> 7
          [] c = "8" -> 8 [] c = "9" -> 9]
\* emptySquares times null
Nulls(n) == [i \in 1..n |-> "null"]
\* the cells that the loop over the characters of one rank assigns, in order
RECURSIVE RankCells(_)
RankCells(chars) ==
    IF chars = <<>> THEN <<>>
    ELSE (IF Head(chars) \notin DOMAIN DigitValue THEN <<Head(chars)>>
          ELSE Nulls(DigitValue[Head(chars)])) \o RankCells(Tail(chars))
parseBasicFEN(d, ranks) ==
    [d EXCEPT !.demoBoard = [rank \in 0..7 |-> Row(RankCells(ranks[rank + 1]))]]

\* the state of the demo after the script has run and initializeApp has set the
\* edit mode; colorSelect is the value of the playerColor select
NewDemo ==
    [currentMode |-> "edit", selectedSquare |-> NoSquare, gameHistory |-> <<>>,
     isGameActive |-> FALSE, playerColor |-> "white", colorSelect |-> "white",
     moveCount |-> 0, demoBoard |-> StartBoard, cpuTimers |-> 0, cpuReplies |-> 0]

getPieceAt(d, square) == d.demoBoard[8 - square[2]][square[1]]
selectSquare(d, square) == [d EXCEPT !.selectedSquare = square]
appClearSelection(d) == [d EXCEPT !.selectedSquare = NoSquare]

appSetGameMode(d, mode) ==
    LET d1 == [appClearSelection(d) EXCEPT !.currentMode = mode]
    IN  CASE mode = "edit" -> [d1 EXCEPT !.isGameActive = FALSE]
          [] mode = "human" -> [d1 EXCEPT !.isGameActive = TRUE]
          [] mode = "cpu" -> [d1 EXCEPT !.isGameActive = TRUE,
                                        !.playerColor = d.colorSelect]

canSelectPiece(d, piece) ==
    CASE d.currentMode = "human" ->
            \/ d.moveCount % 2 = 0 /\ isWhitePiece(piece)
            \/ d.moveCount % 2 = 1 /\ ~isWhitePiece(piece)
      [] d.currentMode = "cpu" ->
            \/ d.playerColor = "white" /\ isWhitePiece(piece)
            \/ d.playerColor = "black" /\ ~isWhitePiece(piece)
      [] OTHER -> TRUE

Abs(x) == IF x < 0 THEN 0 - x ELSE x
isValidMove(d, from, to) ==
    /\ getPieceAt(d, from) # "null"
    /\ from # to
    /\ to[1] >= 0 /\ to[1] <= 7 /\ to[2] - 1 >= 0 /\ to[2] - 1 <= 7
    /\ Abs(to[1] - from[1]) <= 2 /\ Abs(to[2] - from[2]) <= 2

executeMove(d, from, to) ==
    LET piece == getPieceAt(d, from)
        count == d.moveCount + 1
        d1 == [d EXCEPT !.demoBoard[8 - to[2]][to[1]] = piece,
                        !.demoBoard[8 - from[2]][from[1]] = "null",
                        !.moveCount = count,
                        !.gameHistory = Append(@, [from |-> from, to |-> to,
                                                   piece |-> piece,
                                                   moveNumber |-> (count + 1) \div 2,
                                                   isWhite |-> count % 2 = 1]),
                        !.selectedSquare = NoSquare]
    IN  IF d.currentMode = "cpu" /\ count % 2 = 1
        THEN [d1 EXCEPT !.cpuTimers = @ + 1] ELSE d1

attemptMove(d, from, to) ==
    IF isValidMove(d, from, to) THEN executeMove(d, from, to)
    ELSE appClearSelection(d)

onSquareClick(d, square) ==
    IF d.currentMode = "edit" THEN d
    ELSE IF ~d.isGameActive THEN d
    ELSE LET piece == getPieceAt(d, square)
         IN  IF d.selectedSquare = NoSquare
             THEN IF piece # "null" THEN selectSquare(d, square) ELSE d
             ELSE IF square = d.selectedSquare THEN appClearSelection(d)
             ELSE IF piece # "null" /\ canSelectPiece(d, piece)
                  THEN selectSquare(d, square)
             ELSE attemptMove(d, d.selectedSquare, square)

\* the moves makeCpuMove draws from
cpuMoves == {<<<<4, 7>>, <<4, 5>>>>, <<<<3, 7>>, <<3, 6>>>>,
             <<<<6, 8>>, <<5, 6>>>>, <<<<1, 8>>, <<2, 6>>>>}
\* makeCpuMove: it only starts the timer of its reply
appMakeCpuMove(d) == [d EXCEPT !.cpuTimers = @ - 1, !.cpuReplies = @ + 1]
\* the callback of makeCpuMove's timer, with the move it drew
cpuReply(d, move) ==
    LET d1 == [d EXCEPT !.cpuReplies = @ - 1]
    IN  IF getPieceAt(d1, move[1]) # "null" THEN executeMove(d1, move[1], move[2])
        ELSE d1

startNewGame(d) ==
    LET d1 == [d EXCEPT !.demoBoard = StartBoard, !.gameHistory = <<>>,
                        !.moveCount = 0, !.selectedSquare = NoSquare]
    IN  IF d.currentMode = "cpu" THEN [d1 EXCEPT !.playerColor = d.colorSelect]
        ELSE d1

undoMove(d) ==
    IF Len(d.gameHistory) = 0 THEN d
    ELSE LET lastMove == d.gameHistory[Len(d.gameHistory)]
         IN  [d EXCEPT !.gameHistory = SubSeq(@, 1, Len(@) - 1),
                       !.moveCount = @ - 1,
                       !.demoBoard[8 - lastMove.from[2]][lastMove.from[1]] =
                           lastMove.piece,
                       !.demoBoard[8 - lastMove.to[2]][lastMove.to[1]] = "null",
                       !.selectedSquare = NoSquare]

loadPresetPosition(d, type) == parseBasicFEN(d, PRESET_POSITIONS[type])

\* the change listener of the playerColor select
changePlayerColor(d, value) == [d EXCEPT !.colorSelect = value, !.playerColor = value]

InitPage ==
    /\ variant \in Variants
    /\ chess = 0
    /\ stockfish = 0 /\ blobURL = 0
    /\ isEngineConnected = FALSE /\ isAnalyzing = FALSE
    /\ analysisInterval = FALSE /\ timerInterval = FALSE
    /\ adaptiveEnabled \in (IF variant = "adaptive" THEN BOOLEAN ELSE {TRUE})
    /\ fractalAnalysisActive = TRUE
    /\ gameMode = "edit"
    /\ lastStats = EmptyStats /\ multiPVLines = <<>>
    /\ currentAnalysisConfig = NoConfig
    /\ evaluationHistory = <<>>
    /\ predictedDepth = InitPredictedDepth /\ predictedTimeMs = InitPredictedTimeMs
    /\ averageNPS = 0
    /\ timeouts = NoTimeouts /\ fetches = 0
    /\ workers = [w \in WorkerIds |-> NoWorker]
    /\ blobs = [w \in WorkerIds |-> "none"]
    /\ channel = <<>>
    /\ goPending = FALSE /\ goOverlap = FALSE
    /\ unattended = FALSE /\ restarts = 0
    /\ fractalDimension = DefaultDimension
    /\ lastCall = NoCall
    /\ availability = NotCalled
    /\ demo = NewDemo

\* the controller specifications leave the estimator alone
Init == InitPage /\ fractalEngine = FractalChessEngine("script.js", fractalDimension)

\* ---- calls of the exposed API and of the page controls
ToggleEngine == ~unattended /\ Commit(toggleEngine(Entry), channel)
ToggleAnalysis == ~unattended /\ Commit(toggleAnalysis(Entry), channel)
ForceBestMove ==
    ~unattended /\ variant = "adaptive"
    /\ Commit(forceBestMove(Entry), channel)
MakeMove ==
    ~unattended /\ \E m \in Moves : Commit(makeMove(Entry, San(m)), channel)
\* drawBoard with the FEN of a position or a text that fails validation
DrawBoard ==
    ~unattended
    /\ \E fen \in {FenText("fen", p) : p \in Positions} \cup {FenText("invalid", 0)} :
           Commit(drawBoard(Entry, fen), channel)
SetGameMode ==
    ~unattended /\ variant = "adaptive"
    /\ \E mode \in GameModes : Commit(setGameMode(Entry, mode), channel)
AdaptiveToggle ==
    ~unattended /\ variant = "adaptive"
    /\ Commit(adaptiveToggle(Entry, ~adaptiveEnabled), channel)
FractalToggle ==
    ~unattended /\ variant = "fractal"
    /\ Commit(fractalToggle(Entry, ~fractalAnalysisActive), channel)

\* ---- promise continuations of connectEngine
FetchThen == fetches > 0 /\ Commit(fetchThen(Entry, FreshId), channel)
FetchCatch == fetches > 0 /\ Commit(fetchCatch(Entry), channel)
FetchThenThrows ==
    /\ fetches > 0
    /\ \E at \in ThrowPoints : Commit(fetchThenThrows(Entry, FreshId, at), channel)

\* ---- timers
\* a callback of the deadline timer (setInterval(updateAnalysisTimer, 100))
Tick ==
    /\ timerInterval
    /\ \E t \in TimePoints : Commit(updateAnalysisTimer(Entry, t), channel)
TimeoutStartEngineTurn ==
    /\ timeouts.startEngineTurnIfNeeded > 0
    /\ Commit(startEngineTurnIfNeeded([Entry EXCEPT !.timeouts.startEngineTurnIfNeeded = @ - 1]),
              channel)
TimeoutConnectStart ==
    /\ timeouts.connectStart > 0
    /\ Commit(connectStart([Entry EXCEPT !.timeouts.connectStart = @ - 1]), channel)
TimeoutMakeMove ==
    /\ timeouts.delayedMakeMove > 0
    /\ Commit(delayedMakeMove([Entry EXCEPT !.timeouts.delayedMakeMove = @ - 1]), channel)
TimeoutStartAnalysis ==
    /\ timeouts.startAnalysis > 0
    /\ Commit(startAnalysis([Entry EXCEPT !.timeouts.startAnalysis = @ - 1]), channel)

\* ---- the workers
Deliver ==
    /\ channel # <<>>
    /\ Commit(Forget(handleEngineMessage(Entry, Head(channel)), HistKeep),
              Tail(channel))
WorkerError ==
    \E w \in WorkerIds :
        /\ workers[w].st \in {"idle", "searching"}
        /\ Commit(disconnectEngine(Entry), channel)
\* the searching worker sends an info record with a score of scores and a nodes
\* token of nodes
InfoRecord(scores, nodes) ==
    \E w \in WorkerIds, k \in 1..MaxLines, sc \in scores, ty \in ScoreTypes,
       n \in nodes, t \in TimeVals, d \in DepthVals :
        /\ workers[w].st = "searching"
        /\ Len(channel) < MaxChannel
        /\ channel' = Append(channel, InfoMsg(w, workers[w].root, k, sc, ty, n, t, d))
        /\ UNCHANGED <<variant, chess, stockfish, blobURL, isEngineConnected,
                       isAnalyzing, analysisInterval, timerInterval, adaptiveEnabled,
                       fractalAnalysisActive, gameMode, lastStats, multiPVLines,
                       currentAnalysisConfig, evaluationHistory, predictedDepth,
                       predictedTimeMs, averageNPS, timeouts, fetches,
                       workers, blobs, goPending, goOverlap, unattended, restarts,
                       fractalEngine, fractalDimension, lastCall, sideVars>>
EngineInfo == InfoRecord(ScoreVals, NodesVals)
\* a depth-limited search ends by itself
EngineBestMove ==
    \E w \in WorkerIds :
        /\ ~unattended
        /\ workers[w].st = "searching" /\ ~workers[w].inf
        /\ Len(channel) < MaxChannel
        /\ channel' = Append(channel, BestMoveMsg(w, workers[w].root, FALSE))
        /\ workers' = [workers EXCEPT ![w] = [st |-> "idle", root |-> 0, inf |-> FALSE]]
        /\ UNCHANGED <<variant, chess, stockfish, blobURL, isEngineConnected,
                       isAnalyzing, analysisInterval, timerInterval, adaptiveEnabled,
                       fractalAnalysisActive, gameMode, lastStats, multiPVLines,
                       currentAnalysisConfig, evaluationHistory, predictedDepth,
                       predictedTimeMs, averageNPS, timeouts, fetches,
                       blobs, goPending, goOverlap, unattended, restarts,
                       fractalEngine, fractalDimension, lastCall, sideVars>>

\* the hypothesis of an engine that stops answering while nobody touches the page
BecomeUnattended ==
    /\ ~unattended /\ channel = <<>>
    /\ unattended' = TRUE
    /\ UNCHANGED <<variant, chess, stockfish, blobURL, isEngineConnected,
                   isAnalyzing, analysisInterval, timerInterval, adaptiveEnabled,
                   fractalAnalysisActive, gameMode, lastStats, multiPVLines,
                   currentAnalysisConfig, evaluationHistory, predictedDepth,
                   predictedTimeMs, averageNPS, timeouts, fetches,
                   workers, blobs, channel, goPending, goOverlap, restarts,
                   fractalEngine, fractalDimension, lastCall, sideVars>>

\* the connection control used again while a fetch is unsettled
ConnectAgain ==
    /\ ~unattended /\ fetches > 0
    /\ CommitWithin(toggleEngine(Entry), channel, MaxWorkers)

\* a callback of the deadline timer that finds the budget used up
TickExpired ==
    /\ timerInterval
    /\ \E t \in TimePoints :
          t >= predictedTimeMs /\ Commit(updateAnalysisTimer(Entry, t), channel)

Next ==
    \/ ToggleEngine \/ ToggleAnalysis \/ ForceBestMove \/ MakeMove \/ DrawBoard
    \/ SetGameMode \/ AdaptiveToggle \/ FractalToggle
    \/ FetchThen \/ FetchCatch
    \/ Tick \/ TimeoutStartEngineTurn \/ TimeoutConnectStart \/ TimeoutMakeMove
    \/ TimeoutStartAnalysis
    \/ Deliver \/ WorkerError \/ EngineInfo \/ EngineBestMove

Spec == Init /\ [][Next]_vars

\* the connection life cycle with overlapping connection attempts; the engine
\* sends no info record
NextConnect ==
    \/ ToggleEngine \/ ConnectAgain \/ ToggleAnalysis \/ ForceBestMove \/ MakeMove
    \/ SetGameMode \/ FetchThen \/ FetchCatch \/ FetchThenThrows
    \/ Tick \/ TimeoutStartEngineTurn \/ TimeoutConnectStart \/ TimeoutStartAnalysis
    \/ Deliver \/ WorkerError \/ EngineBestMove

SpecConnect == Init /\ [][NextConnect]_vars

\* the adaptive page left alone with an engine that has stopped answering: the
\* interval timer keeps firing and the clock keeps advancing, so a callback
\* that finds the budget used up cannot be postponed forever
InitFair == Init /\ variant = "adaptive"

NextFair ==
    \/ ToggleEngine \/ ToggleAnalysis \/ MakeMove \/ SetGameMode \/ FetchThen
    \/ Tick \/ TimeoutStartEngineTurn \/ TimeoutConnectStart
    \/ Deliver \/ EngineInfo \/ EngineBestMove \/ BecomeUnattended

FairSpec == InitFair /\ [][NextFair]_vars /\ WF_vars(TickExpired)

\* the adaptive page with an engine whose scores and speed vary, and with the
\* two entries of evaluationHistory that computeAdaptiveParameters reads
InitTrend == Init /\ variant = "adaptive"

DeliverTrend ==
    /\ channel # <<>>
    /\ Commit(Forget(handleEngineMessage(Entry, Head(channel)), TrendKeep),
              Tail(channel))
EngineInfoTrend == InfoRecord(TrendScores, TrendNodes)

NextTrend ==
    \/ ToggleEngine \/ ToggleAnalysis \/ MakeMove \/ SetGameMode \/ FetchThen
    \/ Tick \/ TimeoutStartEngineTurn \/ TimeoutConnectStart \/ TimeoutMakeMove
    \/ DeliverTrend \/ EngineInfoTrend \/ EngineBestMove

SpecTrend == InitTrend /\ [][NextTrend]_vars

\* a call of a method, its argument and the value it returned
Called(op, fen, arg, result) == [op |-> op, fen |-> fen, arg |-> arg, result |-> result]

\* ---- the parsing of info records that hold any of the keywords, with or
\* without a value
EngineRecord ==
    \E w \in WorkerIds, shape \in InfoShapes, sc \in ScoreVals, ty \in ParseTypes,
       n \in NodesVals, t \in TimeVals, d \in DepthVals :
        /\ workers[w].st = "searching"
        /\ Len(channel) < MaxChannel
        /\ channel' = Append(channel,
                             PartialInfo(InfoMsg(w, workers[w].root, 1, sc, ty, n, t, d),
                                         shape))
        /\ UNCHANGED <<pageVars, workers, blobs, goPending, goOverlap, unattended,
                       restarts, engineVars, sideVars>>

NextParse ==
    \/ ToggleEngine \/ FetchThen \/ ToggleAnalysis \/ MakeMove
    \/ TimeoutStartAnalysis \/ TimeoutStartEngineTurn
    \/ Deliver \/ EngineRecord

SpecParse == Init /\ [][NextParse]_vars

\* ---- the position field with any text, on a page whose engine analyses
DrawBoardText ==
    ~unattended /\ \E fen \in {FenText("fen", p) : p \in Positions} \cup BadTexts :
                      Commit(drawBoard(Entry, fen), channel)

NextDraw ==
    \/ ToggleEngine \/ FetchThen \/ ToggleAnalysis \/ DrawBoardText
    \/ Deliver \/ EngineInfo

SpecDraw == Init /\ [][NextDraw]_vars

\* ---- the adaptive page with an engine that reports the lines of rank 1 and 2
MaxRank == 2
EngineLine ==
    \E w \in WorkerIds, k \in 1..MaxRank, sc \in ScoreVals, ty \in ScoreTypes,
       n \in NodesVals, t \in TimeVals, d \in DepthVals :
        /\ workers[w].st = "searching"
        /\ Len(channel) < MaxChannel
        /\ channel' = Append(channel, InfoMsg(w, workers[w].root, k, sc, ty, n, t, d))
        /\ UNCHANGED <<pageVars, workers, blobs, goPending, goOverlap, unattended,
                       restarts, engineVars, sideVars>>

NextRank ==
    \/ ToggleEngine \/ FetchThen \/ ToggleAnalysis \/ MakeMove \/ TimeoutStartEngineTurn
    \/ Deliver \/ EngineLine

SpecRank == InitTrend /\ [][NextRank]_vars

\* ---- the start-up of the page: initializeApp awaits checkChessAvailability
\* while the script of the Chess library loads, or never does
availFrame == <<pageVars, workers, blobs, channel, goPending, goOverlap, unattended,
                restarts, engineVars, demo>>
CallCheck ==
    /\ ~availability.called
    /\ availability' = checkChessAvailability(availability)
    /\ UNCHANGED availFrame
\* a setTimeout(check, interval) callback runs
Poll ==
    /\ availability.timer > 0
    /\ availability' = check([availability EXCEPT !.timer = @ - 1])
    /\ UNCHANGED availFrame
LibraryLoads ==
    /\ ~availability.defined
    /\ availability' = [availability EXCEPT !.defined = TRUE]
    /\ UNCHANGED availFrame

NextAvail == CallCheck \/ Poll \/ LibraryLoads

\* a due timer callback runs, and initializeApp makes its call
SpecAvail == Init /\ [][NextAvail]_vars /\ WF_vars(Poll) /\ WF_vars(CallCheck)

\* ---- the demo board: clicks on a few squares, the buttons of the page and the
\* timers of the simulated CPU
MaxHistory == 1
MaxCpuTimers == 1
ClickSquares == {sqE2, sqE4, sqD5}
DemoModes == {"edit", "human", "cpu"}
demoFrame == <<pageVars, workers, blobs, channel, goPending, goOverlap, unattended,
               restarts, engineVars, availability>>
\* the result of a handler of app.js becomes the state, within the bounds
DemoStep(d) ==
    /\ Len(d.gameHistory) <= MaxHistory
    /\ d.cpuTimers <= MaxCpuTimers /\ d.cpuReplies <= MaxCpuTimers
    /\ demo' = d
DemoSetGameMode ==
    \E mode \in DemoModes :
        DemoStep(appSetGameMode(demo, mode)) /\ UNCHANGED demoFrame
SquareClick ==
    \E square \in ClickSquares :
        DemoStep(onSquareClick(demo, square)) /\ UNCHANGED demoFrame
TimeoutMakeCpuMove ==
    demo.cpuTimers > 0 /\ DemoStep(appMakeCpuMove(demo)) /\ UNCHANGED demoFrame
TimeoutCpuReply ==
    /\ demo.cpuReplies > 0
    /\ \E move \in cpuMoves : DemoStep(cpuReply(demo, move))
    /\ UNCHANGED demoFrame
StartNewGame == DemoStep(startNewGame(demo)) /\ UNCHANGED demoFrame
UndoMove == DemoStep(undoMove(demo)) /\ UNCHANGED demoFrame
LoadPresetPosition ==
    \E type \in PresetTypes :
        DemoStep(loadPresetPosition(demo, type)) /\ UNCHANGED demoFrame
ChangePlayerColor ==
    \E value \in {"white", "black"} :
        DemoStep(changePlayerColor(demo, value)) /\ UNCHANGED demoFrame

NextDemo ==
    \/ DemoSetGameMode \/ SquareClick \/ TimeoutMakeCpuMove \/ TimeoutCpuReply
    \/ StartNewGame \/ UndoMove \/ LoadPresetPosition \/ ChangePlayerColor

\* app.js runs on a page of its own
InitDemo == Init /\ variant = "adaptive"

SpecDemo == InitDemo /\ [][NextDemo]_vars

\* ---- the two methods of AdaptiveChessEngine on their own: the plan is the one
\* determineAnalysisMode returned last, the candidate lines are assigned slot by
\* slot as parseAdaptiveInfoLine assigns them
selectFrame == <<variant, chess, stockfish, blobURL, isEngineConnected, isAnalyzing,
                 analysisInterval, timerInterval, adaptiveEnabled,
                 fractalAnalysisActive, gameMode, lastStats, evaluationHistory,
                 predictedDepth, predictedTimeMs, averageNPS, timeouts, fetches,
                 workers, blobs, channel, goPending, goOverlap, unattended, restarts,
                 fractalEngine, fractalDimension, sideVars>>
Classify ==
    \E e \in EvalInputs :
        /\ currentAnalysisConfig' = determineAnalysisMode(e)
        /\ lastCall' = Called("determineAnalysisMode", "", e, 0)
        /\ UNCHANGED <<multiPVLines, selectFrame>>
SetLine ==
    \E i \in 0..(MaxSlots - 1), e \in CandidateEvals, m \in CandidateMoves :
        /\ multiPVLines' = setSlot(multiPVLines, i,
                                   [def |-> TRUE, move |-> m, evaluation |-> e,
                                    depth |-> 0, san |-> convertPVToSAN(chess, m)])
        /\ lastCall' = Called("multiPVLines", "", 0, 0)
        /\ UNCHANGED <<currentAnalysisConfig, selectFrame>>
Select ==
    /\ currentAnalysisConfig # NoConfig
    /\ lastCall' = Called("selectAdaptiveMove", "", 0,
                          selectAdaptiveMove(multiPVLines, currentAnalysisConfig))
    /\ UNCHANGED <<currentAnalysisConfig, multiPVLines, selectFrame>>

InitSelect == Init /\ variant = "adaptive" /\ adaptiveEnabled

NextSelect == Classify \/ SetLine \/ Select

SpecSelect == InitSelect /\ [][NextSelect]_vars

\* ---- the complexity estimator of the fractal page
controllerVars == <<pageVars, workers, blobs, channel, goPending, goOverlap,
                    unattended, restarts, sideVars>>

\* calculateFractalComplexity called by the page (updateFractalDisplay for the
\* position on the board) or through getFractalEngine()
Complexity ==
    \E fen \in Fens \cup {BadFen} :
        LET c == calculateFractalComplexity(fractalEngine, fen)
        IN  /\ fractalEngine' = c.engine
            /\ lastCall' = Called("calculateFractalComplexity", fen, 0, c.result)
            /\ UNCHANGED <<fractalDimension, controllerVars>>
\* calculateOptimalDepth called through getFractalEngine()
OptimalDepth ==
    \E c \in ComplexityVals :
        /\ lastCall' = Called("calculateOptimalDepth", "", c,
                              calculateOptimalDepth(fractalEngine, c))
        /\ UNCHANGED <<fractalEngine, fractalDimension, controllerVars>>
\* the two calls startAnalysis makes to choose the N of 'go depth N'
SearchDepth ==
    \E fen \in Fens :
        /\ fractalAnalysisActive
        /\ fractalEngine' = calculateFractalComplexity(fractalEngine, fen).engine
        /\ lastCall' = Called("go depth", fen, 0, fractalSearchDepth(fractalEngine, fen))
        /\ UNCHANGED <<fractalDimension, controllerVars>>
\* the input handler of the dimension slider, with fen on the board
DimensionSlider ==
    \E x \in SliderVals, fen \in Fens :
        /\ fractalDimension' = x
        /\ fractalEngine' = updateFractalDisplay(updateDimension(fractalEngine, x),
                                                 fractalAnalysisActive, fen)
        /\ lastCall' = Called("dimensionSlider", "", x, 0)
        /\ UNCHANGED controllerVars
\* updateDimension called through getFractalEngine()
UpdateDimension ==
    \E x \in DimInputs :
        /\ fractalEngine' = updateDimension(fractalEngine, x)
        /\ lastCall' = Called("updateDimension", "", x, 0)
        /\ UNCHANGED <<fractalDimension, controllerVars>>

InitFractal ==
    /\ InitPage /\ variant = "fractal"
    /\ fractalEngine \in {FractalChessEngine(k, fractalDimension) : k \in EngineKinds}

NextFractal ==
    Complexity \/ OptimalDepth \/ SearchDepth \/ DimensionSlider \/ UpdateDimension

SpecFractal == InitFractal /\ [][NextFractal]_vars

(* ------------------------------- claims -------------------------------- *)
\* the deadline timer is cancelled and the candidate lines are cleared
Cleared(r) ==
    ~r.timerInterval /\ r.multiPVLines = <<>> /\ r.currentAnalysisConfig = NoConfig
\* the head of the message queue is a bestmove record
BestMoveNext == channel # <<>> /\ Head(channel).kind = "bestmove"
\* the page state after the handling of the head of the message queue
Handled == handleEngineMessage(Entry, Head(channel))

\* C1: a call of startAnalysis or startAdaptiveAnalysis while isAnalyzing is true
\* posts no command and changes no state, and the page never posts two 'go'
\* commands without a 'stop' posted or a bestmove record processed between them.
C1_StartGuard ==
    /\ isAnalyzing => startAnalysis(Entry) = Entry
    /\ isAnalyzing /\ variant = "adaptive" => startAdaptiveAnalysis(Entry) = Entry
    /\ ~goOverlap
\* a search is running, nothing but the isAnalyzing test stands in the way of a
\* start, and a delayed start call is about to run
C1_Witness ==
    /\ isAnalyzing /\ goPending /\ isEngineConnected /\ ~game_over(chess)
    /\ ~(gameMode = "cpu" /\ turn(chess) = PlayerSide)
    /\ timeouts.startAnalysis + timeouts.startEngineTurnIfNeeded
         + timeouts.connectStart > 0

\* C2: while the bestmove record that answers a 'stop' is still on its way to the
\* page, the worker that sent it has not been given a new search.
C2_NoRestartBeforeBestMove ==
    \A i \in 1..Len(channel) :
        channel[i].onStop => workers[channel[i].w].st # "searching"

\* C3: a bestmove record that answers the 'stop' of a cancelled search, arriving
\* while a later session is analyzing, changes neither lastStats nor multiPVLines,
\* does not end the session and causes no move on the board.
C3_StaleIgnored ==
    (channel # <<>> /\ Head(channel).onStop /\ isAnalyzing) =>
        /\ Handled.lastStats = lastStats
        /\ Handled.multiPVLines = multiPVLines
        /\ Handled.isAnalyzing
        /\ Handled.chess = chess
        /\ Handled.timeouts.delayedMakeMove = timeouts.delayedMakeMove

\* C4: in the adaptive variant, right after stopAnalysis (called while analyzing),
\* after a position change by drawBoard or makeMove, and after disconnectEngine,
\* timerInterval is null, multiPVLines is empty and currentAnalysisConfig is unset.
C4_CancelClears ==
    variant = "adaptive" =>
        /\ isAnalyzing => Cleared(stopAnalysis(Entry))
        /\ \A fen \in Positions : Cleared(drawBoard(Entry, FenText("fen", fen)))
        /\ \A m \in LegalMoves(chess) : Cleared(makeMove(Entry, San(m)))
        /\ isEngineConnected => Cleared(disconnectEngine(Entry))

\* C5: once the page is left alone with an analysis session running and an engine
\* that sends no bestmove record, with the timer callbacks firing fairly, a move is
\* eventually committed: the position changes.
C5_MoveCommitted ==
    \A k \in Positions :
        (unattended /\ isAnalyzing /\ timerInterval /\ chess = k) ~> (chess # k)

C7_BestMoveEndsAnalyzing ==
    (BestMoveNext /\ ~Head(channel).onStop /\ Head(channel).w = stockfish
       /\ isAnalyzing) => ~Handled.isAnalyzing

\* C8: the handling of a bestmove record that arrives while the deadline timer runs
\* leaves timerInterval null.
C8_BestMoveCancelsTimer ==
    (BestMoveNext /\ ~Head(channel).onStop /\ Head(channel).w = stockfish
       /\ isAnalyzing /\ timerInterval) => ~Handled.timerInterval

\* C9: at most one worker runs, and every running worker and every live blob URL
\* is the one that stockfish / blobURL refers to.
C9_SingleWorker ==
    /\ Cardinality(Alive(workers)) <= 1
    /\ \A w \in Alive(workers) : stockfish = w
    /\ \A w \in WorkerIds : blobs[w] = "live" => blobURL = w

\* C10: disconnectEngine called while isEngineConnected is false posts nothing and
\* changes no state; a second call right after a first one changes nothing more,
\* so the two calls terminate and revoke at most once.
C10_DisconnectIdempotent ==
    LET once == disconnectEngine(Entry)
        twice == disconnectEngine(once)
    IN  /\ ~isEngineConnected => once = Entry
        /\ twice = once
        /\ Cardinality({i \in 1..Len(twice.posted) :
                           twice.posted[i].op = "terminate"}) <= 1
        /\ Cardinality({i \in 1..Len(twice.posted) :
                           twice.posted[i].op = "revoke"}) <= 1
\* disconnected although a worker that runs is still referenced
C10_Witness ==
    /\ ~isEngineConnected /\ stockfish # 0 /\ blobURL # 0
    /\ stockfish \in Alive(workers)

\* C11: disconnectEngine called while connected leaves isAnalyzing and
\* isEngineConnected false and stockfish, blobURL, analysisInterval and
\* timerInterval null; when an analysis is running it posts 'stop' to the worker
\* before it terminates it.
C11_DisconnectReleases ==
    isEngineConnected =>
        LET r == disconnectEngine(Entry)
        IN  /\ ~r.isAnalyzing /\ ~r.isEngineConnected
            /\ r.stockfish = 0 /\ r.blobURL = 0
            /\ ~r.analysisInterval /\ ~r.timerInterval
            /\ isAnalyzing =>
                  \E i, j \in 1..Len(r.posted) :
                      /\ i < j
                      /\ r.posted[i] = Cmd("stop", stockfish, 0)
                      /\ r.posted[j] = Cmd("terminate", stockfish, 0)
\* a disconnect in the middle of a search with both intervals set
C11_Witness ==
    /\ isEngineConnected /\ isAnalyzing /\ analysisInterval /\ timerInterval
    /\ stockfish \in Alive(workers) /\ workers[stockfish].st = "searching"
    /\ blobURL # 0

\* a connection attempt that failed left nothing behind
Clean(r) ==
    /\ ~r.isEngineConnected /\ r.stockfish = 0 /\ r.blobURL = 0
    /\ ~r.isAnalyzing /\ r.timeouts = timeouts

\* C12: when a connection attempt fails (the fetch rejects or answers not ok, or
\* the creation of the blob URL or of the Worker, or the first postMessage,
\* throws), the page is left disconnected with stockfish and blobURL null, no
\* analysis running and none scheduled.
C12_FailedConnectClean ==
    fetches > 0 =>
        /\ Clean(fetchCatch(Entry))
        /\ \A at \in ThrowPoints : Clean(fetchThenThrows(Entry, FreshId, at))

\* the page state r with one pending callback k taken off its timeouts
Fired(r, k) == [r EXCEPT !.timeouts[k] = @ - 1]

\* C13: the error event of the running worker disconnects at once (the worker is
\* terminated, isEngineConnected and isAnalyzing are false, the deadline timer is
\* cancelled), and no callback that is pending at that moment calls
\* connectEngine: none of them starts a fetch.
C13_NoAutoReconnect ==
    (isEngineConnected /\ stockfish \in Alive(workers)) =>
        LET r == disconnectEngine(Entry)
        IN  /\ ~r.isEngineConnected /\ ~r.isAnalyzing /\ ~r.timerInterval
            /\ \E i \in 1..Len(r.posted) : r.posted[i] = Cmd("terminate", stockfish, 0)
            /\ r.timeouts.startEngineTurnIfNeeded > 0 =>
                  startEngineTurnIfNeeded(Fired(r, "startEngineTurnIfNeeded")).fetches
                      = r.fetches
            /\ r.timeouts.connectStart > 0 =>
                  connectStart(Fired(r, "connectStart")).fetches = r.fetches
            /\ r.timeouts.delayedMakeMove > 0 =>
                  delayedMakeMove(Fired(r, "delayedMakeMove")).fetches = r.fetches
            /\ r.timeouts.startAnalysis > 0 =>
                  startAnalysis(Fired(r, "startAnalysis")).fetches = r.fetches

\* what the handlers that can run in the current state return
Outcomes ==
    {toggleEngine(Entry), toggleAnalysis(Entry), disconnectEngine(Entry)}
    \cup {makeMove(Entry, San(m)) : m \in Moves}
    \cup {drawBoard(Entry, FenText("fen", fen)) : fen \in Positions}
    \cup (IF variant = "adaptive"
          THEN {forceBestMove(Entry)} \cup {setGameMode(Entry, mode) : mode \in GameModes}
               \cup {adaptiveToggle(Entry, ~adaptiveEnabled)}
          ELSE {fractalToggle(Entry, ~fractalAnalysisActive)})
    \cup (IF fetches > 0 THEN {fetchThen(Entry, FreshId), fetchCatch(Entry)} ELSE {})
    \cup (IF timerInterval THEN {updateAnalysisTimer(Entry, t) : t \in TimePoints}
          ELSE {})
    \cup (IF timeouts.startEngineTurnIfNeeded > 0
          THEN {startEngineTurnIfNeeded(Fired(Entry, "startEngineTurnIfNeeded"))}
          ELSE {})
    \cup (IF timeouts.connectStart > 0
          THEN {connectStart(Fired(Entry, "connectStart"))} ELSE {})
    \cup (IF timeouts.delayedMakeMove > 0
          THEN {delayedMakeMove(Fired(Entry, "delayedMakeMove"))} ELSE {})
    \cup (IF timeouts.startAnalysis > 0
          THEN {startAnalysis(Fired(Entry, "startAnalysis"))} ELSE {})
    \cup (IF channel # <<>> THEN {Handled} ELSE {})

\* C14: startAnalysis and startAdaptiveAnalysis called while the engine is not
\* connected or the game is over post nothing and change nothing; no handler
\* posts 'position' or 'go', or sets isAnalyzing, unless the engine is connected
\* and the game is not over; and no worker searches a position whose game is over.
C14_StartNeedsReady ==
    /\ (~isEngineConnected \/ game_over(chess)) =>
          /\ startAnalysis(Entry) = Entry
          /\ variant = "adaptive" => startAdaptiveAnalysis(Entry) = Entry
    /\ \A r \in Outcomes :
          (Posts(r, "position") \/ Posts(r, "go") \/ (r.isAnalyzing /\ ~isAnalyzing)) =>
              /\ isEngineConnected /\ r.isEngineConnected
              /\ r.chess = chess /\ ~game_over(chess)
    /\ \A w \in WorkerIds : workers[w].st = "searching" => ~game_over(workers[w].root)
\* a delayed start is about to run on a connected page whose game is over
C14_Witness ==
    /\ isEngineConnected /\ game_over(chess) /\ ~isAnalyzing
    /\ timeouts.startAnalysis + timeouts.startEngineTurnIfNeeded
         + timeouts.connectStart > 0

\* x clamped to [1.0, 2.0]
Clamped(x) == Max(MinDimension, Min(MaxDimension, x))

\* C15: for every FEN string and every dimension in [1.0, 2.0], in both texts of
\* the class, calculateFractalComplexity returns a value in [1.0, 50.0], and a
\* second call with the same FEN under the same dimension returns the same value.
C15_ComplexityInRange ==
    /\ lastCall.op = "calculateFractalComplexity" =>
          MinComplexity <= lastCall.result /\ lastCall.result <= MaxComplexity
    /\ \A fen \in Fens \cup {BadFen} :
          LET first == calculateFractalComplexity(fractalEngine, fen)
              second == calculateFractalComplexity(first.engine, fen)
          IN  second.result = first.result

\* C16: updateDimension empties the cache: every cached value is the one computed
\* with the current dimension, and after updateDimension(x) the cache is empty and
\* the next calculateFractalComplexity of any FEN returns the value computed with
\* the new dimension and stores it under that FEN.
C16_DimensionChangeClears ==
    /\ \A i \in 1..Len(fractalEngine.cache) :
          fractalEngine.cache[i].value = rawComplexity(fractalEngine,
                                                       fractalEngine.cache[i].fen)
    /\ \A x \in DimInputs :
          LET e2 == updateDimension(fractalEngine, x)
          IN  /\ e2.cache = <<>>
              /\ \A fen \in Fens :
                    LET c == calculateFractalComplexity(e2, fen)
                    IN  /\ c.result = rawComplexity(e2, fen)
                        /\ c.engine.cache = <<[fen |-> fen, value |-> c.result]>>
\* a value is cached that another dimension would compute differently
C16_Witness ==
    /\ lastCall.op = "calculateFractalComplexity"
    /\ \E i \in 1..Len(fractalEngine.cache), x \in DimInputs :
          rawComplexity(updateDimension(fractalEngine, x), fractalEngine.cache[i].fen)
              # fractalEngine.cache[i].value

C18_CacheBoundedFifo ==
    LET cache == fractalEngine.cache
    IN  /\ Len(cache) <= maxCacheSize
        /\ \A i, j \in 1..Len(cache) : cache[i].fen = cache[j].fen => i = j
        /\ \A fen \in Fens :
              LET c == calculateFractalComplexity(fractalEngine, fen)
              IN  IF has(cache, fen)
                  THEN c.engine = fractalEngine /\ c.result = get(cache, fen)
                  ELSE c.engine.cache =
                          Append(IF Len(cache) = maxCacheSize THEN Tail(cache) ELSE cache,
                                 [fen |-> fen, value |-> c.result])
\* the last call filled the cache; the next new FEN evicts
C18_Witness ==
    /\ Len(fractalEngine.cache) = maxCacheSize
    /\ lastCall.op = "calculateFractalComplexity"
    /\ fractalEngine.cache[Len(fractalEngine.cache)].fen = lastCall.fen
    /\ \E fen \in Fens : ~has(fractalEngine.cache, fen)

C20_DepthInRange ==
    lastCall.op \in {"calculateOptimalDepth", "go depth"} =>
        MinOptimalDepth <= lastCall.result /\ lastCall.result <= MaxOptimalDepth

\* C21 (amended): computeAdaptiveParameters sets predictedDepth from the last two
\* entries of evaluationHistory: 12 with fewer than two entries, 14 when the last
\* evaluation is lower than the one before, 11 otherwise, always within [6, 40];
\* that value is the depth of the 'go' that startAnalysis posts.  Until the first
\* run of computeAdaptiveParameters predictedDepth is 1, its initial value.
C21_TrendDepth ==
    LET r == computeAdaptiveParameters(Entry)
        a == startAnalysis(Entry)
        h == evaluationHistory
        n == Len(h)
    IN  /\ r.predictedDepth \in 6..40
        /\ n < 2 => r.predictedDepth = 12
        /\ n >= 2 => r.predictedDepth = (IF h[n].value < h[n - 1].value THEN 14 ELSE 11)
        /\ Posts(a, "go") =>
              /\ a.predictedDepth = r.predictedDepth
              /\ a.posted[Len(a.posted)] = Cmd("go", stockfish, r.predictedDepth)
        /\ predictedDepth \in {1, 11, 12, 14}
        /\ analysisInterval => predictedDepth # 1
\* an analysis started by startAnalysis after the evaluation went down
C21_Witness ==
    /\ Len(evaluationHistory) = 2
    /\ evaluationHistory[2].value < evaluationHistory[1].value
    /\ isAnalyzing /\ analysisInterval /\ predictedDepth = 14
\* C21 as stated: predictedDepth is in [6, 40] after any sequence of analyses
C21_AsStated ==
    isAnalyzing => predictedDepth \in 6..40

\* C22: the time budget computeAdaptiveParameters predicts is a positive integer:
\* predictedDepth * 1000 when averageNPS is 0, and otherwise the larger of 1000
\* and predictedDepth * 1000000 / averageNPS rounded to the nearest integer;
\* averageNPS is never negative.
C22_TimeBudget ==
    LET r == computeAdaptiveParameters(Entry)
        n == r.predictedDepth * 1000000
        q == r.predictedTimeMs
    IN  /\ averageNPS >= 0
        /\ predictedTimeMs > 0 /\ q > 0
        /\ averageNPS = 0 => q = r.predictedDepth * 1000
        /\ averageNPS > 0 =>
              \/ q = 1000 /\ 2 * n + averageNPS < 2002 * averageNPS
              \/ /\ q >= 1000
                 /\ 2 * n - averageNPS < 2 * q * averageNPS
                 /\ 2 * q * averageNPS <= 2 * n + averageNPS
\* a budget above its floor, computed from a rounded average of two speeds
C22_Witness ==
    /\ averageNPS = 12001 /\ lastStats.nps = 12000
    /\ isAnalyzing /\ analysisInterval
    /\ predictedDepth = 14 /\ predictedTimeMs = 1167

\* C23: determineAnalysisMode puts every evaluation E into exactly one mode:
\* seek_balance with MultiPV 5 for E > 50, seek_improvement with MultiPV 7 and
\* depth 20 for E < -50, maintain_balance with MultiPV 3 and depth 15 otherwise
\* (E = 50 and E = -50 included); every plan has the target range [-50, 50], a
\* MultiPV of at least 1 and a depth of at least 1.
C23_ModePlan ==
    lastCall.op = "determineAnalysisMode" =>
        LET E == lastCall.arg
            plan == currentAnalysisConfig
        IN  /\ (E # NaN /\ E > 50) =>
                  plan.mode = "seek_balance" /\ plan.multiPV = 5
            /\ (E # NaN /\ E < -50) =>
                  plan.mode = "seek_improvement" /\ plan.multiPV = 7 /\ plan.depth = 20
            /\ (E = NaN \/ (E >= -50 /\ E <= 50)) =>
                  plan.mode = "maintain_balance" /\ plan.multiPV = 3 /\ plan.depth = 15
            /\ plan.lo = -50 /\ plan.hi = 50
            /\ plan.multiPV >= 1 /\ plan.depth >= 1
\* an evaluation on the threshold is planned as maintain_balance
C23_Witness ==
    /\ lastCall.op = "determineAnalysisMode" /\ lastCall.arg = 50
    /\ currentAnalysisConfig.mode = "maintain_balance"

\* the slots of multiPVLines that selectAdaptiveMove has to consider: those that
\* hold a line with at least one move and a defined evaluation
Candidates ==
    {i \in 1..Len(multiPVLines) :
        /\ multiPVLines[i].def /\ multiPVLines[i].move # 0
        /\ multiPVLines[i].evaluation # Undefined}

InfoNext == channel # <<>> /\ Head(channel).kind = "info"
\* the info record at the head of the queue holds keyword k followed by a
\* well-formed value
WellFormed(k) ==
    LET msg == Head(channel)
    IN  /\ k \in msg.has
        /\ CASE k = "nodes" -> msg.nodes # NaN
             [] k = "time" -> msg.time # NaN
             [] k = "depth" -> msg.depth # NaN
             [] k = "score" -> msg.score # NaN
             [] k = "pv" -> msg.move # 0
             [] OTHER -> TRUE

\* C26: the handling of an info record leaves every field of lastStats whose
\* keyword, or a well-formed value for it, is absent from the record at its
\* previous value, and sets no field to NaN.
C26_FieldsIndependent ==
    InfoNext =>
        /\ ~(WellFormed("nodes") /\ WellFormed("time"))
               => Handled.lastStats.nps = lastStats.nps
        /\ ~WellFormed("depth") => Handled.lastStats.depth = lastStats.depth
        /\ ~WellFormed("score") => Handled.lastStats.evaluation = lastStats.evaluation
        /\ ~WellFormed("pv") => Handled.lastStats.pv = lastStats.pv
        /\ Handled.lastStats.nps = NaN => lastStats.nps = NaN
        /\ Handled.lastStats.depth = NaN => lastStats.depth = NaN
        /\ (Handled.lastStats.evaluation # NoEval
            /\ Handled.lastStats.evaluation.value = NaN)
               => Handled.lastStats.evaluation = lastStats.evaluation

\* C27: the evaluation recorded from an info record with a cp or mate score, in
\* lastStats and in the slot of multiPVLines, is positive exactly when the
\* engine's score, which is relative to the side to move at the root of the
\* search, is positive, whichever colour that side is.
C27_MoverPerspective ==
    (InfoNext /\ WellFormed("score")) =>
        LET msg == Head(channel)
            recorded == Handled.lastStats.evaluation
        IN  /\ recorded # NoEval
            /\ recorded.value > 0 <=> msg.score > 0
            /\ recorded.value < 0 <=> msg.score < 0
            /\ (variant = "adaptive" /\ {"multipv", "pv", "score"} \subseteq msg.has)
                   => (Handled.multiPVLines[msg.mpv].evaluation > 0 <=> msg.score > 0)

\* C28: lastStats has its empty value after every makeMove that is accepted,
\* after every drawBoard of a valid position and after every disconnectEngine
\* of a connected engine, so that getStats() reports nothing of the previous
\* position or session.
C28_StatsReset ==
    /\ \A m \in Moves :
           Accepts(chess, San(m)) => makeMove(Entry, San(m)).lastStats = EmptyStats
    /\ \A fen \in Positions : drawBoard(Entry, FenText("fen", fen)).lastStats = EmptyStats
    /\ isEngineConnected => disconnectEngine(Entry).lastStats = EmptyStats

\* C29: every analysis session of the adaptive page starts with multiPVLines
\* empty, whether startAdaptiveAnalysis or startAnalysis starts it, so that the
\* lines selectAdaptiveMove is given when the session's bestmove is processed
\* were recorded during that session.
C29_SessionLines ==
    variant = "adaptive" =>
        /\ startAdaptiveAnalysis(Entry).isAnalyzing /\ ~isAnalyzing
               => startAdaptiveAnalysis(Entry).multiPVLines = <<>>
        /\ startAnalysis(Entry).isAnalyzing /\ ~isAnalyzing
               => startAnalysis(Entry).multiPVLines = <<>>

\* C30: drawBoard with a text that is not the FEN of a position (empty, too
\* long, failing validation, or with a rank of the wrong length) changes no
\* state: the position, lastStats and isAnalyzing stay as they are and no
\* command is posted to the engine.
C30_InvalidRejected ==
    \A fen \in BadTexts : drawBoard(Entry, fen) = Entry

\* C31: after the beforeunload handler the worker is terminated and stockfish
\* is null, the blob URL is revoked and blobURL is null, and analysisInterval
\* and, on the adaptive page, timerInterval are cancelled.
C31_UnloadReleases ==
    LET r == beforeUnload(Entry)
    IN  /\ r.stockfish = 0 /\ r.blobURL = 0
        /\ stockfish # 0 => \E i \in 1..Len(r.posted) :
                                r.posted[i] = Cmd("terminate", stockfish, 0)
        /\ blobURL # 0 => \E i \in 1..Len(r.posted) :
                              r.posted[i] = Cmd("revoke", blobURL, 0)
        /\ ~r.analysisInterval
        /\ variant = "adaptive" => ~r.timerInterval

\* C32: the promise of checkChessAvailability is settled exactly once: resolve
\* or reject is called at most once and no poll is pending afterwards; a poll
\* that finds the library defined resolves it; it is rejected only by the poll
\* that brings attempts to maxAttempts, the library being undefined; there are
\* never more than maxAttempts polls; and the promise is eventually settled.
C32_BoundedPolls ==
    /\ [](/\ availability.settled <= 1
          /\ availability.settled = 1 <=> availability.state # "pending"
          /\ availability.state # "pending" => availability.timer = 0
          /\ availability.timer <= 1
          /\ availability.attempts <= maxAttempts
          /\ availability.state = "rejected"
                 => availability.attempts = maxAttempts /\ availability.called)
    /\ [][/\ (availability'.attempts # availability.attempts /\ availability.defined)
                 => availability'.state = "resolved"
          /\ (availability'.state = "rejected" /\ availability.state = "pending")
                 => (~availability.defined
                     /\ availability'.attempts = availability.attempts + 1)
          /\ availability'.state = "resolved" /\ availability.state = "pending"
                 => availability.defined]_vars
    /\ <>(availability.state # "pending")
\* the library never loaded and the last of the maxAttempts polls rejected
C32_Witness ==
    /\ availability.state = "rejected" /\ availability.attempts = maxAttempts
    /\ availability.timer = 0 /\ ~availability.defined

\* C33: whenever isAnalyzing is false, analysisInterval and timerInterval are
\* null; and a start of an analysis assigns analysisInterval only when it is
\* null, so that no running interval loses its handle.
C33_NoTimerOutlives ==
    /\ ~isAnalyzing => ~analysisInterval /\ ~timerInterval
    /\ startAnalysis(Entry).isAnalyzing /\ ~isAnalyzing => ~analysisInterval
    /\ (variant = "adaptive" /\ startAdaptiveAnalysis(Entry).isAnalyzing /\ ~isAnalyzing)
           => ~timerInterval

\* an analysis of the adaptive page was stopped, its bestmove still to come
C33_Witness ==
    /\ variant = "adaptive" /\ ~isAnalyzing /\ isEngineConnected
    /\ BestMoveNext /\ Head(channel).onStop
    /\ ~timerInterval /\ ~analysisInterval

\* C34: in cpu mode, while the player is to move, no engine-driven path moves:
\* the handling of a bestmove record, the delayed makeMove of an adaptive
\* selection, forceBestMove and the deadline timer all leave the position as
\* it is.
C34_EngineMovesOnItsTurn ==
    (variant = "adaptive" /\ gameMode = "cpu" /\ turn(chess) = PlayerSide) =>
        /\ BestMoveNext => Handled.chess = chess
        /\ timeouts.delayedMakeMove > 0 => delayedMakeMove(Entry).chess = chess
        /\ forceBestMove(Entry).chess = chess
        /\ \A t \in TimePoints : updateAnalysisTimer(Entry, t).chess = chess

\* the head of the message queue is a bestmove record that processAdaptiveBestMove
\* answers with an adaptive selection and, in cpu mode, a delayed makeMove
SelectionNext ==
    /\ BestMoveNext /\ variant = "adaptive" /\ gameMode = "cpu"
    /\ currentAnalysisConfig # NoConfig /\ Len(multiPVLines) > 0
    /\ selectAdaptiveMove(multiPVLines, currentAnalysisConfig).def

\* C35: the delayed makeMove of an adaptive selection is scheduled with the
\* first move of the line selectAdaptiveMove returned as the move to apply, and
\* while it is pending no handler gives it another move: a handler that changes
\* lastStats.bestMoveSan (a change of the position, a reset of the stats) leaves
\* a text that makeMove does not accept, so that nothing is applied to a new
\* position.
C35_DelayedMoveIsSelection ==
    /\ SelectionNext =>
           /\ Handled.timeouts.delayedMakeMove = timeouts.delayedMakeMove + 1
           /\ Handled.lastStats.bestMoveSan =
                  uciToSan(chess, selectAdaptiveMove(multiPVLines,
                                                     currentAnalysisConfig).move)
    /\ timeouts.delayedMakeMove > 0 =>
           \A r \in Outcomes :
               (/\ r.timeouts.delayedMakeMove >= timeouts.delayedMakeMove
                /\ r.lastStats.bestMoveSan # lastStats.bestMoveSan)
                   => ~Accepts(r.chess, r.lastStats.bestMoveSan)

\* C36: the handling of an info record of rank k > 1 by parseAdaptiveInfoLine
\* stores the record's line in multiPVLines[k-1] and leaves lastStats.evaluation
\* and lastStats.pv, which describe the line of rank 1, as they are.
C36_RankOneStats ==
    (InfoNext /\ variant = "adaptive" /\ Head(channel).mpv > 1) =>
        LET msg == Head(channel)
        IN  /\ Len(Handled.multiPVLines) >= msg.mpv
            /\ Handled.multiPVLines[msg.mpv].def
            /\ Handled.multiPVLines[msg.mpv].move = msg.move
            /\ Handled.lastStats.evaluation = lastStats.evaluation
            /\ Handled.lastStats.pv = lastStats.pv

\* C37: isEngineConnected implies that stockfish is a live worker, and a page
\* that is not connected holds neither a worker nor a blob URL
C37_ConnectedMeansLiveWorker ==
    /\ isEngineConnected => stockfish # 0 /\ stockfish \in Alive(workers)
    /\ ~isEngineConnected => stockfish = 0 /\ blobURL = 0

\* the states in which a click, or the reply of the simulated CPU if one is due,
\* leaves the demo after having executed a move
Executed ==
    {r \in {onSquareClick(demo, square) : square \in ClickSquares}
            \cup {cpuReply(demo, move) : move \in IF demo.cpuReplies > 0 THEN cpuMoves
                                                   ELSE {}} :
        r.moveCount > demo.moveCount}

\* C38: undoMove after executeMove restores demoBoard, moveCount and gameHistory
\* for every move the demo executes, a capture included, and moveCount is the
\* length of gameHistory
C38_UndoInvertsExecute ==
    /\ demo.moveCount = Len(demo.gameHistory)
    /\ \A r \in Executed :
          LET u == undoMove(r)
          IN  /\ u.demoBoard = demo.demoBoard
              /\ u.moveCount = demo.moveCount
              /\ u.gameHistory = demo.gameHistory

\* C39: a click executes a move only for a piece of the side to move in human
\* mode (white when moveCount is even) and of playerColor in cpu mode
C39_SidesAlternate ==
    \A square \in ClickSquares :
        LET r == onSquareClick(demo, square)
        IN  r.moveCount > demo.moveCount =>
                LET piece == r.gameHistory[Len(r.gameHistory)].piece
                IN  /\ demo.currentMode = "human" =>
                           (isWhitePiece(piece) <=> demo.moveCount % 2 = 0)
                    /\ demo.currentMode = "cpu" =>
                           (isWhitePiece(piece) <=> demo.playerColor = "white")
====
